---- MODULE Spec2Model ----
(***************************************************************************)
(* Verification model of the journaltx detection engine:                   *)
(*   - the Raydium AMM V4 transaction decoder                              *)
(*       (journaltx/ingest/quicknode/raydium_decoder.py)                   *)
(*   - the early-stage filter  (journaltx/filters/early_meme.py)           *)
(*   - the rolling signal tracker (journaltx/filters/signals.py)           *)
(*   - the WebSocket listener (scripts/listen.py) with the fetch and the   *)
(*     hand-off to the filter and the alert log                            *)
(*       (journaltx/ingest/quicknode/transaction_parser.py, lp_events.py)  *)
(*   - the same listener with each handling taken one blocking call at a  *)
(*     time, and the Telegram notifier (journaltx/notify/telegram.py)      *)
(*                                                                         *)
(* Conventions                                                             *)
(*   - Python None is the record None; a missing account (get_account      *)
(*     returning None, always consumed through `or`) is the empty string.  *)
(*   - Python lists are sequences; Python index i is TLA+ index i + 1.     *)
(*   - Lamports are integers.  A SOL amount (lamports / 1_000_000_000) is  *)
(*     the exact rational [num, den] with den = LAMPORTS_PER_SOL.          *)
(*   - An instruction payload (a transport-encoded string) is the record   *)
(*     [enc, bytes]: what the string is ("empty", "base58", "base64",      *)
(*     "invalid") and the bytes it decodes to under that encoding.         *)
(***************************************************************************)
EXTENDS Integers, Sequences, FiniteSets, TLC

VARIABLES
    tx,         \* decoder: the transaction handed to decode_raydium_transaction
    fact,       \* decoder: its result (Pending while no call has returned)
    ixType,     \* decoder: the instruction type it logged ("none" if not reached)
    now,        \* wall clock in minutes (datetime.now())
    signals,    \* SignalTracker.signals : pair -> list of Signal
    call,       \* filter/tracker: arguments of the last call
    decision,   \* filter/tracker: result of the last call
    running,    \* LPListener.running
    pc,         \* position of connect_and_listen
    ws,         \* the socket held in LPListener.ws
    reconnect_delay,        \* LPListener.reconnect_delay, in seconds
    processed_signatures,   \* LPListener.processed_signatures
    stop_requested,         \* history: stop() has been called
    rate_limited,           \* history: a rate-limit frame came on this connection
    sleeps,     \* history: the backoff sleeps since the last successful connect
    handled,    \* history: the last message and what its handling did
    inbox,      \* frames the socket has received and the loop has not taken
    jobs,       \* the calls of process_message that have not returned
    arrived,    \* history: number of frames the socket has received
    begun,      \* history: the frames whose handling began, in that order
    fetchlog    \* history: the last finished call of get_transaction

pvars == <<inbox, jobs, arrived, begun, fetchlog>>

lvars == <<running, pc, ws, reconnect_delay, processed_signatures,
           stop_requested, rate_limited, sleeps, handled, pvars>>

vars == <<tx, fact, ixType, now, signals, call, decision, running, pc, ws,
          reconnect_delay, processed_signatures, stop_requested, rate_limited,
          sleeps, handled, pvars>>

None == [none |-> TRUE]
Pending == [pending |-> TRUE]
\* SignalTracker.signals = {}
EmptySignals == [p \in {} |-> <<>>]

\* LPListener.processed_signatures = set(): the signatures the model names,
\* and the number of further signatures held
EmptyCache == [named |-> {}, others |-> 0]

\* no frame has been received and no message is being handled
PipelineIdle ==
    /\ inbox = <<>>
    /\ jobs = {}
    /\ arrived = 0
    /\ begun = <<>>
    /\ fetchlog = None

\* LPListener.__init__
ListenerIdle ==
    /\ PipelineIdle
    /\ running = FALSE
    /\ pc = "idle"
    /\ ws = "none"
    /\ reconnect_delay = 1
    /\ processed_signatures = EmptyCache
    /\ stop_requested = FALSE
    /\ rate_limited = FALSE
    /\ sleeps = <<>>
    /\ handled = None

(***************************************************************************)
(* Constants of raydium_decoder.py                                         *)
(***************************************************************************)
RAYDIUM_AMM_V4 == "675kPX9MHTjS2zt1qfr1NYHuzeLXfQM9H24wFSUt1Mp8"
WSOL_MINT == "So11111111111111111111111111111111111111112"
MIN_SOL_DELTA_LAMPORTS == 100000000
LAMPORTS_PER_SOL == 1000000000

\* lamports / 1_000_000_000
LamportsToSol(l) == [num |-> l, den |-> LAMPORTS_PER_SOL]
\* comparison and difference of two SOL amounts over the same denominator
SolLT(a, b) == a.num < b.num
SolLE(a, b) == a.num <= b.num
SolSub(a, b) == [num |-> a.num - b.num, den |-> a.den]
ZeroSol == LamportsToSol(0)

(***************************************************************************)
(* _decode_instruction_type                                                *)
(***************************************************************************)
DecodeFail == <<-1>>

\* base58.b58decode(data): raises on a string that is not base58
Base58Decode(data) == IF data.enc = "base58" THEN data.bytes ELSE DecodeFail
\* base64.b64decode(data): raises on bad padding
Base64Decode(data) == IF data.enc = "base64" THEN data.bytes ELSE DecodeFail

\* try base58, fall back to base64
DecodePayload(data) ==
    IF Base58Decode(data) # DecodeFail THEN Base58Decode(data)
    ELSE Base64Decode(data)

DecodeInstructionType(data) ==
    IF data.enc = "empty" THEN "unknown"
    ELSE LET decoded == DecodePayload(data) IN
         IF decoded = DecodeFail THEN "unknown"
         ELSE IF Len(decoded) < 1 THEN "unknown"
         ELSE LET discriminator == decoded[1] IN
              CASE discriminator = 0 -> "initialize"
                [] discriminator = 1 -> "initialize2"
                [] discriminator = 3 -> "deposit"
                [] discriminator = 4 -> "withdraw"
                [] discriminator = 9 -> "swap"
                [] OTHER -> "unknown_lp"

(***************************************************************************)
(* _find_raydium_instruction                                               *)
(***************************************************************************)
NoIx == [none |-> TRUE]

\* flatten meta.innerInstructions[*].instructions in iteration order
RECURSIVE FlattenInner(_)
FlattenInner(inner) ==
    IF inner = <<>> THEN <<>>
    ELSE Head(inner) \o FlattenInner(Tail(inner))

\* first instruction of the list whose programId is the AMM, or NoIx
RECURSIVE FirstRaydium(_)
FirstRaydium(ixs) ==
    IF ixs = <<>> THEN NoIx
    ELSE IF Head(ixs).programId = RAYDIUM_AMM_V4 THEN Head(ixs)
    ELSE FirstRaydium(Tail(ixs))

FindRaydiumInstructionInnerFirst(instructions, innerInstructions) ==
    LET top == FirstRaydium(instructions)
        inn == FirstRaydium(FlattenInner(innerInstructions))
    IN  IF inn # NoIx THEN [ix |-> inn, type |-> DecodeInstructionType(inn.data)]
        ELSE IF top # NoIx THEN [ix |-> top, type |-> DecodeInstructionType(top.data)]
        ELSE [ix |-> NoIx, type |-> "unknown"]

FindRaydiumInstruction(instructions, innerInstructions) ==
    LET top == FirstRaydium(instructions)
        inn == FirstRaydium(FlattenInner(innerInstructions))
    IN  IF top # NoIx THEN [ix |-> top, type |-> DecodeInstructionType(top.data)]
        ELSE IF inn # NoIx THEN [ix |-> inn, type |-> DecodeInstructionType(inn.data)]
        ELSE [ix |-> NoIx, type |-> "unknown"]

(***************************************************************************)
(* _extract_pool_from_instruction                                          *)
(***************************************************************************)
\* get_account(idx) or ""
GetAccount(accounts, account_keys, idx) ==
    IF idx < Len(accounts) /\ accounts[idx + 1] < Len(account_keys)
    THEN account_keys[accounts[idx + 1] + 1]
    ELSE ""

\* a or b on strings
StrOr(a, b) == IF a # "" THEN a ELSE b

ExtractPoolFromInstruction(instruction, account_keys, ix_type) ==
    LET accounts == instruction.accounts
        acc(i) == GetAccount(accounts, account_keys, i)
    IN  IF accounts = <<>> THEN None
        ELSE IF ix_type \in {"initialize", "initialize2"} THEN
            [pool_address |-> acc(3),
             lp_mint |-> acc(6),
             token_mint |-> acc(7),
             quote_mint |-> StrOr(acc(8), WSOL_MINT),
             token_vault |-> acc(9),
             quote_vault |-> acc(10)]
        ELSE IF ix_type = "deposit" THEN
            [pool_address |-> acc(1),
             lp_mint |-> acc(5),
             token_vault |-> acc(6),
             quote_vault |-> acc(7),
             token_mint |-> "",
             quote_mint |-> WSOL_MINT]
        ELSE
            [pool_address |-> StrOr(acc(0), StrOr(acc(1), acc(3))),
             lp_mint |-> "",
             token_mint |-> "",
             quote_mint |-> WSOL_MINT]

(***************************************************************************)
(* _extract_pool_from_inner_instructions (fallback: token-balance scan)    *)
(***************************************************************************)
\* a token balance record is [accountIndex, mint, owner, uiAmount]
\* sol_vaults.sort(key=uiAmount, reverse=True)[0]: the first entry, in list
\* order, that holds the largest amount (the sort is stable)
LargestVault(vaults) ==
    vaults[CHOOSE i \in 1..Len(vaults) :
              /\ \A j \in 1..Len(vaults) : vaults[j].uiAmount <= vaults[i].uiAmount
              /\ \A j \in 1..(i - 1) : vaults[j].uiAmount < vaults[i].uiAmount]

ExtractPoolFromInnerInstructions(postTokenBalances) ==
    LET IsSol(b) == b.mint = WSOL_MINT
        IsToken(b) == b.mint # WSOL_MINT /\ b.mint # ""
        sol_vaults == SelectSeq(postTokenBalances, IsSol)
        token_vaults == SelectSeq(postTokenBalances, IsToken)
    IN  IF sol_vaults = <<>> THEN None
        ELSE LET pool_owner == LargestVault(sol_vaults).owner
                 SameOwner(b) == b.owner = pool_owner
                 owned == SelectSeq(token_vaults, SameOwner)
             IN  IF owned = <<>> THEN None
                 ELSE [pool_address |-> pool_owner,
                       lp_mint |-> "",
                       token_mint |-> owned[1].mint,
                       quote_mint |-> WSOL_MINT]

(***************************************************************************)
(* _calculate_balance_deltas                                               *)
(***************************************************************************)
Min(a, b) == IF a <= b THEN a ELSE b

\* {b["accountIndex"]: b for b in balances}.items(): keys in order of first
\* occurrence, each with the last record that carries the key
RECURSIVE KeysInOrder(_, _)
KeysInOrder(balances, seen) ==
    IF balances = <<>> THEN <<>>
    ELSE IF Head(balances).accountIndex \in seen
         THEN KeysInOrder(Tail(balances), seen)
         ELSE <<Head(balances).accountIndex>>
                 \o KeysInOrder(Tail(balances), seen \cup {Head(balances).accountIndex})

LastWithKey(balances, k) ==
    balances[CHOOSE i \in 1..Len(balances) :
                /\ balances[i].accountIndex = k
                /\ \A j \in (i + 1)..Len(balances) : balances[j].accountIndex # k]

DictItems(balances) ==
    LET keys == KeysInOrder(balances, {})
    IN  [i \in 1..Len(keys) |-> LastWithKey(balances, keys[i])]

\* float(pre_tokens.get(idx, {}).get("uiTokenAmount", {}).get("uiAmount", 0) or 0)
PreAmount(preTokenBalances, idx) ==
    IF \E i \in 1..Len(preTokenBalances) : preTokenBalances[i].accountIndex = idx
    THEN LastWithKey(preTokenBalances, idx).uiAmount
    ELSE 0

\* the loop "for i in range(min(len(pre), len(post)))", from index i (1-based)
\* with the running (max_sol_increase, sol_before, sol_after) in acc
RECURSIVE SolScanFirstIncrease(_, _, _, _)
SolScanFirstIncrease(pre, post, i, acc) ==
    IF i > Min(Len(pre), Len(post)) THEN acc
    ELSE LET delta == post[i] - pre[i] IN
         IF delta > 0 /\ acc.max_sol_increase = 0
         THEN SolScanFirstIncrease(pre, post, i + 1,
                      [max_sol_increase |-> delta,
                       sol_before |-> LamportsToSol(pre[i]),
                       sol_after |-> LamportsToSol(post[i])])
         ELSE SolScanFirstIncrease(pre, post, i + 1, acc)

RECURSIVE SolScan(_, _, _, _)
SolScan(pre, post, i, acc) ==
    IF i > Min(Len(pre), Len(post)) THEN acc
    ELSE LET delta == post[i] - pre[i] IN
         IF delta > acc.max_sol_increase
         THEN SolScan(pre, post, i + 1,
                      [max_sol_increase |-> delta,
                       sol_before |-> LamportsToSol(pre[i]),
                       sol_after |-> LamportsToSol(post[i])])
         ELSE SolScan(pre, post, i + 1, acc)

\* the token loop over post_tokens.items(): token_mint is the mint resolved
\* before the loop; acc carries token_delta and pool_info["token_mint"]
RECURSIVE TokenScan(_, _, _, _)
TokenScan(items, preTokenBalances, token_mint, acc) ==
    IF items = <<>> THEN acc
    ELSE LET post == Head(items)
             matches == \/ post.mint = token_mint
                        \/ (token_mint = "" /\ post.mint # WSOL_MINT)
             delta == post.uiAmount - PreAmount(preTokenBalances, post.accountIndex)
         IN  IF matches /\ delta > acc.token_delta
             THEN TokenScan(Tail(items), preTokenBalances, token_mint,
                            [token_delta |-> delta,
                             token_mint |-> IF acc.token_mint = ""
                                            THEN post.mint ELSE acc.token_mint])
             ELSE TokenScan(Tail(items), preTokenBalances, token_mint, acc)

\* the LP loop: sum of the positive increases of the records of lp_mint
RECURSIVE LpScan(_, _, _)
LpScan(items, preTokenBalances, lp_mint) ==
    IF items = <<>> THEN 0
    ELSE LET post == Head(items)
             delta == post.uiAmount - PreAmount(preTokenBalances, post.accountIndex)
         IN  (IF post.mint = lp_mint /\ delta > 0 THEN delta ELSE 0)
                 + LpScan(Tail(items), preTokenBalances, lp_mint)

\* returns None, or the amounts together with pool_info["token_mint"] as
\* the token loop leaves it
CalculateBalanceDeltas(meta, pool_info) ==
    LET scan == SolScan(meta.preBalances, meta.postBalances, 1,
                        [max_sol_increase |-> 0,
                         sol_before |-> ZeroSol, sol_after |-> ZeroSol])
        sol_delta == LamportsToSol(scan.max_sol_increase)
        items == DictItems(meta.postTokenBalances)
        tok == TokenScan(items, meta.preTokenBalances, pool_info.token_mint,
                         [token_delta |-> 0, token_mint |-> pool_info.token_mint])
    IN  IF SolLE(sol_delta, ZeroSol) THEN None
        ELSE [sol_delta |-> sol_delta,
              sol_before |-> scan.sol_before,
              sol_after |-> scan.sol_after,
              token_delta |-> tok.token_delta,
              token_mint |-> tok.token_mint,
              lp_minted |-> IF pool_info.lp_mint # ""
                            THEN LpScan(items, meta.preTokenBalances, pool_info.lp_mint)
                            ELSE 0]

(***************************************************************************)
(* decode_raydium_transaction                                              *)
(***************************************************************************)
LpAddTypes == {"initialize", "initialize2", "deposit", "unknown_lp"}

NoiseFloorPassesStrict(sol_delta) ==
    SolLT(LamportsToSol(MIN_SOL_DELTA_LAMPORTS), sol_delta)

\* not (amounts["sol_delta"] < MIN_SOL_DELTA_LAMPORTS / 1_000_000_000)
NoiseFloorPasses(sol_delta) ==
    ~ SolLT(sol_delta, LamportsToSol(MIN_SOL_DELTA_LAMPORTS))

IsNewPoolAnyLp(ix_type) == ix_type \in {"initialize", "initialize2", "deposit"}

\* ix_type in ["initialize", "initialize2"]
IsNewPool(ix_type) == ix_type \in {"initialize", "initialize2"}

\* meta.get("err") is not None
IsFailed(transaction) == transaction.failed

DecodeRaydiumTransaction(transaction) ==
    IF IsFailed(transaction) THEN None
    ELSE IF transaction.accountKeys = <<>> THEN None
    ELSE
    LET found == FindRaydiumInstruction(transaction.instructions,
                                        transaction.innerInstructions)
    IN
    IF found.ix = NoIx THEN None
    ELSE IF found.type \notin LpAddTypes THEN None
    ELSE
    LET direct == ExtractPoolFromInstruction(found.ix, transaction.accountKeys,
                                             found.type)
        pool_info == IF direct = None
                     THEN ExtractPoolFromInnerInstructions(transaction.postTokenBalances)
                     ELSE direct
    IN
    IF pool_info = None THEN None
    ELSE
    LET amounts == CalculateBalanceDeltas(transaction, pool_info) IN
    IF amounts = None THEN None
    ELSE IF ~ NoiseFloorPasses(amounts.sol_delta) THEN None
    ELSE [pool_address |-> pool_info.pool_address,
          token_mint |-> amounts.token_mint,
          quote_mint |-> pool_info.quote_mint,
          token_amount |-> amounts.token_delta,
          quote_amount_sol |-> amounts.sol_delta,
          lp_tokens_minted |-> amounts.lp_minted,
          liquidity_before_sol |-> amounts.sol_before,
          liquidity_after_sol |-> amounts.sol_after,
          is_pool_creation |-> IsNewPool(found.type),
          signature |-> transaction.signature]

(***************************************************************************)
(* Decoder inputs                                                          *)
(***************************************************************************)
NumAccounts == 2

TOKEN_PROGRAM == "TokenkegQfeZyiNwAJbNbGKPFXCWuBvf9Ss623VQ5DA"

Discriminators == {0, 1, 2, 3, 4, 9, 255}

Payloads ==
    {[enc |-> "empty", bytes |-> <<>>],
     [enc |-> "invalid", bytes |-> <<>>],
     [enc |-> "base64", bytes |-> <<>>],
     [enc |-> "base58", bytes |-> <<3, 7>>]}
    \cup {[enc |-> "base58", bytes |-> <<d>>] : d \in Discriminators}
    \cup {[enc |-> "base64", bytes |-> <<d>>] : d \in {0, 3, 5}}

LongAccounts == <<0, 1, 2, 0, 1, 2, 0, 1, 2, 0, 1>>
AccountLists == {<<>>, <<0, 1>>, LongAccounts, <<9, 9, 9, 9>>}

RaydiumIx(data, accounts) ==
    [programId |-> RAYDIUM_AMM_V4, data |-> data, accounts |-> accounts]
OtherIx ==
    [programId |-> TOKEN_PROGRAM, data |-> [enc |-> "empty", bytes |-> <<>>],
     accounts |-> <<0>>]

B58(d) == [enc |-> "base58", bytes |-> <<d>>]

\* AMM instructions: every payload over a short account list, and the
\* LP-addition payloads over every account list
RaydiumIxs ==
    {RaydiumIx(d, <<0, 1>>) : d \in Payloads}
    \cup {RaydiumIx(B58(d), a) : d \in {0, 3, 2}, a \in AccountLists}

\* the program the log subscription mentions (raydium_subscriptions.py)
RAYDIUM_AMM_PROGRAM == "675kPX9MHTjS2zt1qf1iQiLpKcM8cCtKxEbZqE8qiVJ"

\* an instruction of the subscribed program
SubscribedIx(data, accounts) ==
    [programId |-> RAYDIUM_AMM_PROGRAM, data |-> data, accounts |-> accounts]

TopLevelLists ==
    {<<OtherIx>>, <<OtherIx, SubscribedIx(B58(3), <<0, 1>>)>>}
    \cup {<<OtherIx, ix>> : ix \in RaydiumIxs}
    \cup {<<RaydiumIx(B58(3), <<0, 1>>), RaydiumIx(B58(9), <<0, 1>>)>>,
          <<RaydiumIx(B58(9), <<0, 1>>), RaydiumIx(B58(3), <<0, 1>>)>>}

InnerLists ==
    {<<>>,
     <<<<OtherIx>>, <<OtherIx, RaydiumIx(B58(3), <<0, 1>>)>>>>,
     <<<<RaydiumIx(B58(9), <<0, 1>>)>>, <<RaydiumIx(B58(0), LongAccounts)>>>>}

PreLamports == {0, 100000000}
PostLamports == {0, 99999999, 100000000, 200000001}

BalanceCases ==
    {[pre |-> pre, post |-> post] :
        pre \in [1..NumAccounts -> PreLamports],
        post \in [1..NumAccounts -> PostLamports]}
    \cup {[pre |-> <<0>>, post |-> <<0, 100000000>>]}

TokenBalance(idx, mint, owner, amount) ==
    [accountIndex |-> idx, mint |-> mint, owner |-> owner, uiAmount |-> amount]

TokenCases ==
    {[pre |-> <<>>, post |-> <<>>],
     [pre |-> <<TokenBalance(2, "MintA", "authority", 400)>>,
      post |-> <<TokenBalance(1, WSOL_MINT, "authority", 50),
                 TokenBalance(2, "MintA", "authority", 1000)>>],
     [pre |-> <<TokenBalance(1, "MintA", "authority", 5)>>,
      post |-> <<TokenBalance(1, "MintA", "authority", 10),
                 TokenBalance(2, "MintB", "authority", 500),
                 TokenBalance(0, WSOL_MINT, "authority", 5)>>]}

Transactions ==
    {[failed |-> f,
      signature |-> "sig",
      accountKeys |-> k,
      instructions |-> top,
      innerInstructions |-> inner,
      preBalances |-> b.pre,
      postBalances |-> b.post,
      preTokenBalances |-> t.pre,
      postTokenBalances |-> t.post] :
        f \in BOOLEAN,
        k \in {<<>>, <<"user", "pool", "vault">>},
        top \in TopLevelLists,
        inner \in InnerLists,
        b \in BalanceCases,
        t \in TokenCases}

\* no transaction is being decoded
NoTx == [none |-> TRUE]

(***************************************************************************)
(* Decoder specification: decode_raydium_transaction applied to one        *)
(* transaction                                                             *)
(***************************************************************************)
\* the type the decoder logs once it has located the instruction
LoggedType(transaction) ==
    IF IsFailed(transaction) \/ transaction.accountKeys = <<>> THEN "none"
    ELSE LET found == FindRaydiumInstruction(transaction.instructions,
                                             transaction.innerInstructions)
         IN  IF found.ix = NoIx THEN "none" ELSE found.type

Decode ==
    /\ fact = Pending
    /\ fact' = DecodeRaydiumTransaction(tx)
    /\ ixType' = LoggedType(tx)
    /\ UNCHANGED <<tx, now, signals, call, decision>>
    /\ UNCHANGED lvars

InitDecode ==
    /\ tx \in Transactions
    /\ fact = Pending
    /\ ixType = "none"
    /\ now = 0
    /\ signals = EmptySignals
    /\ call = None
    /\ decision = Pending
    /\ ListenerIdle

NextDecode == Decode

SpecDecode == InitDecode /\ [][NextDecode]_vars

(***************************************************************************)
(* Decoder properties                                                      *)
(***************************************************************************)
Decoded == fact # Pending
IsFact == fact # Pending /\ fact # None

\* the target-program instruction as the contract locates it: the first
\* match among the top-level instructions, otherwise the first match among
\* the inner instruction lists taken in order
TopMatches ==
    {i \in 1..Len(tx.instructions) : tx.instructions[i].programId = RAYDIUM_AMM_V4}
InnerFlat == FlattenInner(tx.innerInstructions)
InnerMatches ==
    {i \in 1..Len(InnerFlat) : InnerFlat[i].programId = RAYDIUM_AMM_V4}
Least(S) == CHOOSE i \in S : \A j \in S : i <= j
HasLocated == TopMatches # {} \/ InnerMatches # {}
LocatedIx ==
    IF TopMatches # {} THEN tx.instructions[Least(TopMatches)]
    ELSE InnerFlat[Least(InnerMatches)]
LocatedType == DecodeInstructionType(LocatedIx.data)

\* the largest (post - pre) lamport difference over the account indices
BalanceIndices == 1..Min(Len(tx.preBalances), Len(tx.postBalances))
LamportDelta(i) == tx.postBalances[i] - tx.preBalances[i]
HasIncrease == \E i \in BalanceIndices : LamportDelta(i) > 0
LargestIncrease ==
    LamportDelta(CHOOSE i \in BalanceIndices :
                    \A j \in BalanceIndices : LamportDelta(j) <= LamportDelta(i))

\* C1: decode returns a fact only if the transaction is not failed and the
\* located target-program instruction has type initialize, initialize2,
\* deposit or unknown_lp; a failed transaction, a transaction without a
\* target-program instruction and one whose located instruction is
\* withdraw, swap or unknown yield no fact.
C1_FactOnlyForLpAdditions ==
    Decoded =>
        /\ IsFact => (~ tx.failed /\ HasLocated
                      /\ LocatedType \in {"initialize", "initialize2",
                                          "deposit", "unknown_lp"})
        /\ tx.failed => fact = None
        /\ ~ HasLocated => fact = None
        /\ (HasLocated /\ LocatedType \in {"withdraw", "swap", "unknown"})
              => fact = None

\* a fact decoded from an instruction found only in the inner lists while a
\* non-target instruction sits at top level
C1_Witness ==
    /\ IsFact
    /\ TopMatches = {}
    /\ InnerMatches # {}

PassesOtherSteps ==
    /\ ~ tx.failed
    /\ tx.accountKeys # <<>>
    /\ HasLocated
    /\ LocatedType \in LpAddTypes
    /\ \/ LocatedIx.accounts # <<>>
       \/ ExtractPoolFromInnerInstructions(tx.postTokenBalances) # None
    /\ HasIncrease

\* C3: a transaction that passes every other decode step yields a fact when
\* its largest lamport increase is 100,000,000 or more and no fact when it
\* is below 100,000,000.
C3_NoiseFloor ==
    (Decoded /\ PassesOtherSteps) =>
        /\ LargestIncrease >= 100000000 => IsFact
        /\ LargestIncrease < 100000000 => fact = None

\* a fact whose largest increase is exactly the noise floor
C3_Witness ==
    /\ IsFact
    /\ LargestIncrease = 100000000

\* C4: is_pool_creation is true iff the discriminator of the located
\* instruction is 0 or 1.
C4_PoolCreationIffInit ==
    IsFact =>
        (fact.is_pool_creation <=> DecodePayload(LocatedIx.data)[1] \in {0, 1})

\* a pool-creation fact, and its discriminator is 1
C4_Witness ==
    /\ IsFact
    /\ fact.is_pool_creation
    /\ DecodePayload(LocatedIx.data)[1] = 1

\* the discriminator table of the contract
TableType(d) ==
    CASE d = 0 -> "initialize"
      [] d = 1 -> "initialize2"
      [] d = 3 -> "deposit"
      [] d = 4 -> "withdraw"
      [] d = 9 -> "swap"
      [] OTHER -> "other"

\* The source gives no bounds for the account-count range of an LP
\* operation; whatever they are, an instruction that names no account is
\* outside it.
InLpOpRange(count) == count > 0

\* C5: the type is derived from the first payload byte by the fixed table;
\* another discriminator gives unknown_lp only when the instruction's
\* account count is in the LP-operation range and unknown otherwise; an
\* empty or undecodable payload gives unknown.
C5_TypeFromTableAndAccountCount ==
    (Decoded /\ ixType # "none") =>
        LET data == LocatedIx.data
            decoded == DecodePayload(data)
        IN  IF data.enc = "empty" \/ decoded = DecodeFail \/ decoded = <<>>
            THEN ixType = "unknown"
            ELSE IF TableType(decoded[1]) # "other"
            THEN ixType = TableType(decoded[1])
            ELSE IF InLpOpRange(Len(LocatedIx.accounts))
            THEN ixType = "unknown_lp"
            ELSE ixType = "unknown"

(***************************************************************************)
(* SignalTracker (journaltx/filters/signals.py)                            *)
(* Time is counted in minutes.                                             *)
(***************************************************************************)
\* SignalTracker.__init__(window_minutes = 30); the module-level tracker is
\* built with the default
WINDOW_MINUTES == 30

MakeSignal(signal_type, timestamp, pair, details) ==
    [signal_type |-> signal_type, timestamp |-> timestamp,
     pair |-> pair, details |-> details]

\* self.signals[pair], with the list created when the key is missing
StoredFor(sigs, pair) == IF pair \in DOMAIN sigs THEN sigs[pair] ELSE <<>>

PruneKeepBoundary(stored, clock) ==
    LET cutoff == clock - WINDOW_MINUTES
        InWindow(sg) == sg.timestamp >= cutoff
    IN  SelectSeq(stored, InWindow)

\* [s for s in self.signals[pair] if s.timestamp > cutoff]
Prune(stored, clock) ==
    LET cutoff == clock - WINDOW_MINUTES
        InWindow(sg) == sg.timestamp > cutoff
    IN  SelectSeq(stored, InWindow)

UniqueTypesByTimestamp(stored) == {stored[i].timestamp : i \in 1..Len(stored)}

\* set(s.signal_type for s in recent_signals)
UniqueTypes(stored) == {stored[i].signal_type : i \in 1..Len(stored)}

EnoughTypesByCount(recent) == Len(recent) >= 2

\* len(unique_types) >= 2
EnoughTypes(recent) == Cardinality(UniqueTypes(recent)) >= 2

\* add_signal: the tracker's new signals and the returned flag
AddSignal(sigs, signal, clock) ==
    LET pair == signal.pair
        recent == Append(Prune(StoredFor(sigs, pair), clock), signal)
    IN  [signals |-> [p \in DOMAIN sigs \cup {pair} |->
                         IF p = pair THEN recent ELSE sigs[p]],
         result |-> EnoughTypes(recent)]

\* get_signal_count
GetSignalCount(sigs, pair, clock) ==
    IF pair \notin DOMAIN sigs THEN [total |-> 0, types |-> {}]
    ELSE LET recent == Prune(sigs[pair], clock)
         IN  [total |-> Len(recent), types |-> UniqueTypes(recent)]

TotalStored(sigs) ==
    LET RECURSIVE Sum(_)
        Sum(S) == IF S = {} THEN 0
                  ELSE LET p == CHOOSE q \in S : TRUE
                       IN  Len(sigs[p]) + Sum(S \ {p})
    IN  Sum(DOMAIN sigs)

(***************************************************************************)
(* Bounds of the clock and of the tracker's memory                         *)
(***************************************************************************)
MaxTime == 40
MaxSignals == 2
TickSteps == {10, 30}

\* time passes between two calls
Tick ==
    /\ decision = Pending
    /\ \E d \in TickSteps :
          /\ now + d <= MaxTime
          /\ now' = now + d
    /\ UNCHANGED <<tx, fact, ixType, signals, call, decision>>
    /\ UNCHANGED lvars

\* the caller drops the arguments and the result of the finished call
Return ==
    /\ decision # Pending
    /\ call' = None
    /\ decision' = Pending
    /\ UNCHANGED <<tx, fact, ixType, now, signals>>
    /\ UNCHANGED lvars

(***************************************************************************)
(* Tracker specification: add_signal called with signals of any type       *)
(***************************************************************************)
SignalTypes == {"lp_add", "volume_spike", "buy_pressure"}
TrackerPairs == {"TOKEN/SOL", "OTHER/SOL"}
NoDetails == [lp_added |-> 0, lp_before |-> 0]

TrackerAddSignal ==
    /\ decision = Pending
    /\ \E pair \in TrackerPairs, type \in SignalTypes :
          LET signal == MakeSignal(type, now, pair, NoDetails)
              out == AddSignal(signals, signal, now)
          IN  /\ TotalStored(out.signals) <= MaxSignals
              /\ call' = [signal |-> signal, stored |-> StoredFor(signals, pair)]
              /\ signals' = out.signals
              /\ decision' = [result |-> out.result]
    /\ UNCHANGED <<tx, fact, ixType, now>>
    /\ UNCHANGED lvars

InitIdle ==
    /\ tx = NoTx
    /\ fact = Pending
    /\ ixType = "none"
    /\ now = 0
    /\ signals = EmptySignals
    /\ call = None
    /\ decision = Pending
    /\ ListenerIdle

NextTracker == TrackerAddSignal \/ Tick \/ Return

SpecTracker == InitIdle /\ [][NextTracker]_vars

(***************************************************************************)
(* Early-stage filter (journaltx/filters/early_meme.py)                    *)
(* Pair ages are counted in minutes (pair_age_hours * 60), liquidity in    *)
(* whole SOL and market cap in whole USD.  Status texts are given without  *)
(* their pictographs.                                                      *)
(***************************************************************************)
HoursToMinutes(h) == h * 60
HALF_HOUR == 30
\* market_data.get("pair_age_hours", 999)
DEFAULT_PAIR_AGE_HOURS == 999

\* defaults of check_early_stage_opportunity
DefaultThresholds ==
    [max_pair_age_hours |-> 24,
     preferred_pair_age_hours |-> 6,
     near_zero_baseline_sol |-> 10,
     hard_reject_baseline_liquidity |-> 20,
     hard_reject_pair_age_hours |-> 24,
     hard_reject_market_cap |-> 20000000,
     min_lp_ignite_sol |-> 300,
     max_market_cap_defensive |-> 20000000,
     signal_window_minutes |-> 30]

\* pair.split("/")
Split(pair) ==
    CASE pair = "TOKENSOL" -> <<"TOKENSOL">>
      [] pair = "TOKEN/USDC" -> <<"TOKEN", "USDC">>
      [] pair = "TOKEN/SOL" -> <<"TOKEN", "SOL">>
      [] pair = "BONK/sol" -> <<"BONK", "sol">>

\* str.upper()
Upper(str) == IF str = "sol" THEN "SOL" ELSE str

\* what the DexScreener lookup of get_pair_market_data returns
NoData == [kind |-> "none"]
WrongQuote == [kind |-> "wrong_quote"]
LegacyData == [kind |-> "legacy"]
PairData(age, cap) == [kind |-> "data", pair_age |-> age, market_cap |-> cap]

\* get_pair_market_data: the denylist is consulted before the lookup
GetPairMarketData(pair, legacy_memes, dex) ==
    LET base_token == Upper(Split(pair)[1])
    IN  IF legacy_memes # {} /\ base_token \in legacy_memes THEN LegacyData
        ELSE dex

\* market_data.get("pair_age_hours", 999), in minutes
PairAgeOf(market_data) ==
    IF market_data.kind = "data" THEN market_data.pair_age
    ELSE HoursToMinutes(DEFAULT_PAIR_AGE_HOURS)

\* market_data.get("market_cap", 0)
MarketCapOf(market_data) ==
    IF market_data.kind = "data" THEN market_data.market_cap ELSE 0

Check(rule, status, reason) == [rule |-> rule, status |-> status, reason |-> reason]

NoCounts == [total |-> -1, types |-> {}]

\* details as created at the top of the function
NewDetails(in) ==
    [pair |-> in.pair,
     lp_added_sol |-> in.lp_added_sol,
     lp_before_sol |-> in.lp_before_sol,
     checks |-> <<>>,
     pair_age |-> -1,
     priority |-> "none",
     market_cap |-> -1,
     ignition_pass |-> "unset",
     signal_counts |-> NoCounts]

Result(should_alert, details, sigs) ==
    [should_alert |-> should_alert, should_log |-> TRUE,
     details |-> details, signals |-> sigs]

AddCheck(details, check) ==
    [details EXCEPT !.checks = Append(@, check)]

AgeStatusBelowLimits(pair_age, th) ==
    IF pair_age < HALF_HOUR
    THEN [status |-> "HIGH (golden window)", priority |-> "HIGH"]
    ELSE IF pair_age < HoursToMinutes(2)
    THEN [status |-> "MEDIUM (early discovery)", priority |-> "MEDIUM"]
    ELSE IF pair_age < HoursToMinutes(th.preferred_pair_age_hours)
    THEN [status |-> "LOW (sweet spot)", priority |-> "LOW"]
    ELSE [status |-> "VALID (late window)", priority |-> "LOW"]

\* the priority tag of rule 3
AgeStatus(pair_age, th) ==
    IF pair_age <= HALF_HOUR
    THEN [status |-> "HIGH (golden window)", priority |-> "HIGH"]
    ELSE IF pair_age <= HoursToMinutes(2)
    THEN [status |-> "MEDIUM (early discovery)", priority |-> "MEDIUM"]
    ELSE IF pair_age <= HoursToMinutes(th.preferred_pair_age_hours)
    THEN [status |-> "LOW (sweet spot)", priority |-> "LOW"]
    ELSE [status |-> "VALID (late window)", priority |-> "LOW"]

AgeRejectsAtLimit(pair_age, th) ==
    pair_age >= HoursToMinutes(th.hard_reject_pair_age_hours)

\* pair_age > hard_reject_pair_age_hours
AgeRejects(pair_age, th) ==
    pair_age > HoursToMinutes(th.hard_reject_pair_age_hours)

MarketCapRejectsAboveLimit(market_cap, th) == market_cap > th.hard_reject_market_cap

\* market_cap >= hard_reject_market_cap
MarketCapRejects(market_cap, th) == market_cap >= th.hard_reject_market_cap

IgnitionPassEither(in) ==
    \/ in.lp_before_sol <= in.thresholds.hard_reject_baseline_liquidity
    \/ in.lp_added_sol >= in.thresholds.min_lp_ignite_sol

\* is_near_zero and is_significant
IgnitionPass(in) ==
    /\ in.lp_before_sol <= in.thresholds.hard_reject_baseline_liquidity
    /\ in.lp_added_sol >= in.thresholds.min_lp_ignite_sol

Rule6BypassNewPoolOnly(in, pair_age) == in.is_new_pool

\* is_new_pool or (lp_before_sol <= near_zero_baseline_sol and pair_age <= 1.0)
Rule6Bypass(in, pair_age) ==
    \/ in.is_new_pool
    \/ (in.lp_before_sol <= in.thresholds.near_zero_baseline_sol
        /\ pair_age <= HoursToMinutes(1))

\* rule 6 and the final entry; d5 is details after rule 5 passed
Rule6(in, d5, pair_age, sigs, clock) ==
    LET signal == MakeSignal("lp_add", clock, in.pair,
                             [lp_added |-> in.lp_added_sol,
                              lp_before |-> in.lp_before_sol])
        final == Check("FINAL", "ALERT", "Early-stage opportunity confirmed")
    IN  IF Rule6Bypass(in, pair_age)
        THEN Result(TRUE,
                    AddCheck(AddCheck(d5, Check("Multi-signal", "BYPASS",
                                                "New pool ignition")), final),
                    sigs)
        ELSE IF ~ in.require_multi_signal
        THEN Result(TRUE,
                    AddCheck(AddCheck(d5, Check("Multi-signal", "DISABLED",
                                                "Single-signal mode enabled")), final),
                    sigs)
        ELSE LET out == AddSignal(sigs, signal, clock)
                 d6 == [d5 EXCEPT !.signal_counts =
                            GetSignalCount(out.signals, in.pair, clock)]
             IN  IF out.result
                 THEN Result(TRUE,
                             AddCheck(AddCheck(d6, Check("Multi-signal", "PASS",
                                                         "signals")), final),
                             out.signals)
                 ELSE Result(FALSE,
                             AddCheck(d6, Check("Multi-signal", "WAIT",
                                                "Need 2+ signals")),
                             out.signals)

\* rules 3 to 5; d2 is details after rule 2 passed
Rules3To6(in, d2, market_data, sigs, clock) ==
    LET th == in.thresholds
        pair_age == PairAgeOf(market_data)
        market_cap == MarketCapOf(market_data)
        d3a == [d2 EXCEPT !.pair_age = pair_age]
        age == AgeStatus(pair_age, th)
        d3 == AddCheck([d3a EXCEPT !.priority = age.priority],
                       Check("Pair age", age.status, "hours old"))
        d4a == [d3 EXCEPT !.market_cap = market_cap]
        d4 == AddCheck(d4a, Check("Market cap", "PASS", "within limit"))
        ignition_pass == IgnitionPass(in)
        d5a == [d4 EXCEPT !.ignition_pass = IF ignition_pass THEN "true" ELSE "false"]
    IN  IF AgeRejects(pair_age, th)
        THEN Result(FALSE,
                    AddCheck(d3a, Check("Pair age (hard reject)", "BLOCK", "Too old")),
                    sigs)
        ELSE IF MarketCapRejects(market_cap, th)
        THEN Result(FALSE,
                    AddCheck(d4a, Check("Market cap (hard reject)", "BLOCK", "Too large")),
                    sigs)
        ELSE IF ~ ignition_pass
        THEN Result(FALSE,
                    AddCheck(d5a, Check("LP ignition", "FAIL", "Baseline, Added")),
                    sigs)
        ELSE Rule6(in,
                   AddCheck(d5a, Check("LP ignition", "PASS", "Near-zero ignition")),
                   pair_age, sigs, clock)

\* check_early_stage_opportunity: (should_alert, should_log, details) and the
\* tracker's signals after the call
CheckEarlyStageOpportunity(in, sigs, clock) ==
    LET d0 == NewDetails(in)
        parts == Split(in.pair)
    IN  IF Len(parts) < 2
        THEN Result(FALSE, AddCheck(d0, Check("Pair format", "FAIL", "Invalid format")),
                    sigs)
        ELSE IF Upper(parts[2]) # "SOL"
        THEN Result(FALSE, AddCheck(d0, Check("Pair type", "FAIL", "Not SOL pair")),
                    sigs)
        ELSE
        LET d1 == AddCheck(d0, Check("Pair type", "PASS", "TOKEN/SOL"))
            market_data == GetPairMarketData(in.pair, in.legacy_memes, in.dex)
        IN  IF market_data = NoData
            THEN Result(FALSE, AddCheck(d1, Check("Market data", "SKIP", "No data")),
                        sigs)
            ELSE IF market_data.kind = "legacy"
            THEN Result(FALSE,
                        AddCheck(d1, Check("Legacy meme", "BLOCK", "Hard exclusion list")),
                        sigs)
            ELSE Rules3To6(in, d1, market_data, sigs, clock)

(***************************************************************************)
(* Filter inputs and specification                                         *)
(***************************************************************************)
FilterPairs == {"TOKENSOL", "TOKEN/USDC", "TOKEN/SOL", "BONK/sol"}
\* the configured denylist (filter JSON "legacy_memes")
LEGACY_MEMES == {"BONK", "WIF", "DOGE"}
PairAges == {60, 61, 1440, 1441}
SmallCap == 19999999
\* every age with a market cap below the limit, and one answer at the limit
DexAnswers ==
    {NoData, WrongQuote}
    \cup {PairData(a, SmallCap) : a \in PairAges}
    \cup {PairData(60, DefaultThresholds.hard_reject_market_cap)}

LpBefore == {10, 11, 20, 21}
\* every baseline with an addition at the ignition minimum, and one addition
\* just below it
LpCases ==
    {[before |-> lb, added |-> DefaultThresholds.min_lp_ignite_sol] : lb \in LpBefore}
    \cup {[before |-> 10, added |-> DefaultThresholds.min_lp_ignite_sol - 1]}

BoundaryInputs ==
    {[pair |-> p,
      lp_added_sol |-> lp.added,
      lp_before_sol |-> lp.before,
      thresholds |-> DefaultThresholds,
      legacy_memes |-> LEGACY_MEMES,
      is_new_pool |-> np,
      require_multi_signal |-> rm,
      dex |-> dx] :
        p \in FilterPairs, lp \in LpCases,
        np \in BOOLEAN, rm \in BOOLEAN, dx \in DexAnswers}

\* the ages around the priority limits: 0.5h, 2h and preferred_pair_age_hours
PriorityAges == {0, 30, 31, 120, 121, 360, 361}

\* an igniting addition to an existing pool at each of those ages
PriorityInputs ==
    {[pair |-> "TOKEN/SOL",
      lp_added_sol |-> DefaultThresholds.min_lp_ignite_sol,
      lp_before_sol |-> 10,
      thresholds |-> DefaultThresholds,
      legacy_memes |-> LEGACY_MEMES,
      is_new_pool |-> FALSE,
      require_multi_signal |-> TRUE,
      dex |-> PairData(a, SmallCap)] : a \in PriorityAges}

\* a caller that configures a shorter signal window (filter JSON
\* "signal_window_minutes")
SHORT_WINDOW_MINUTES == 10

\* an igniting addition to an existing pool, evaluated with that window
ShortWindowInputs ==
    {[pair |-> "TOKEN/SOL",
      lp_added_sol |-> DefaultThresholds.min_lp_ignite_sol,
      lp_before_sol |-> 10,
      thresholds |-> [DefaultThresholds EXCEPT
                         !.signal_window_minutes = SHORT_WINDOW_MINUTES],
      legacy_memes |-> LEGACY_MEMES,
      is_new_pool |-> FALSE,
      require_multi_signal |-> TRUE,
      dex |-> PairData(120, SmallCap)]}

FilterInputs == BoundaryInputs \cup PriorityInputs \cup ShortWindowInputs

\* one call of check_early_stage_opportunity on the module-level tracker
Evaluate ==
    /\ decision = Pending
    /\ \E in \in FilterInputs :
          LET out == CheckEarlyStageOpportunity(in, signals, now)
          IN  /\ TotalStored(out.signals) <= MaxSignals
              /\ call' = in
              /\ decision' = [should_alert |-> out.should_alert,
                              should_log |-> out.should_log,
                              details |-> out.details]
              /\ signals' = out.signals
    /\ UNCHANGED <<tx, fact, ixType, now>>
    /\ UNCHANGED lvars

Init == InitIdle

Next == Evaluate \/ Tick \/ Return

Spec == Init /\ [][Next]_vars

(***************************************************************************)
(* Filter properties                                                       *)
(***************************************************************************)
\* a call of check_early_stage_opportunity has returned
Evaluated == decision # Pending /\ call # None

Checks == decision.details.checks
LastCheck == Checks[Len(Checks)]

\* the gates of the contract, read off the arguments of the call
InAge == PairAgeOf(call.dex)
InCap == MarketCapOf(call.dex)
Gate1Passes ==
    /\ Len(Split(call.pair)) = 2
    /\ Upper(Split(call.pair)[2]) = "SOL"
OnDenylist == Upper(Split(call.pair)[1]) \in call.legacy_memes
DataAvailable == call.dex # NoData
Gate3Passes == InAge <= 60 * call.thresholds.hard_reject_pair_age_hours
Gate4Passes == InCap < call.thresholds.hard_reject_market_cap
Gate5Passes ==
    /\ call.lp_before_sol <= call.thresholds.hard_reject_baseline_liquidity
    /\ call.lp_added_sol >= call.thresholds.min_lp_ignite_sol
Gate6Bypassed ==
    \/ call.is_new_pool
    \/ (call.lp_before_sol <= call.thresholds.near_zero_baseline_sol /\ InAge <= 60)
Gate6Disabled == ~ call.require_multi_signal
\* two distinct signal types among the signals held for the pair
Gate6Satisfied ==
    /\ call.pair \in DOMAIN signals
    /\ \E i, j \in 1..Len(signals[call.pair]) :
          signals[call.pair][i].signal_type # signals[call.pair][j].signal_type
Gate6Passes == Gate6Bypassed \/ Gate6Disabled \/ Gate6Satisfied

AllGatesPass ==
    /\ Gate1Passes
    /\ DataAvailable
    /\ ~ OnDenylist
    /\ Gate3Passes
    /\ Gate4Passes
    /\ Gate5Passes
    /\ Gate6Passes

\* C6: should_alert is true iff every gate passes on that call (pair shape,
\* market data available, base token not on the denylist, age, market cap,
\* ignition, and gate 6 bypassed, disabled or satisfied); exactly then the
\* last entry of checks is the terminal entry.
C6_AlertIffAllGatesPass ==
    Evaluated =>
        /\ decision.should_alert <=> AllGatesPass
        /\ decision.should_alert <=> LastCheck.rule = "FINAL"
        /\ OnDenylist => ~ decision.should_alert

\* an alert raised with gate 6 bypassed for a pool of baseline exactly
\* near_zero_baseline and age exactly one hour
C6_Witness ==
    /\ Evaluated
    /\ decision.should_alert
    /\ ~ call.is_new_pool
    /\ call.require_multi_signal
    /\ call.lp_before_sol = call.thresholds.near_zero_baseline_sol
    /\ InAge = 60
    /\ LastCheck.rule = "FINAL"

\* the gate a check entry belongs to (7: the terminal entry)
GateOf(rule) ==
    CASE rule \in {"Pair format", "Pair type"} -> 1
      [] rule \in {"Market data", "Legacy meme"} -> 2
      [] rule \in {"Pair age (hard reject)", "Pair age"} -> 3
      [] rule \in {"Market cap (hard reject)", "Market cap"} -> 4
      [] rule = "LP ignition" -> 5
      [] rule = "Multi-signal" -> 6
      [] rule = "FINAL" -> 7

\* the first gate, in the order 1..6, that the arguments fail (0: none)
FirstFailingGate ==
    IF ~ Gate1Passes THEN 1
    ELSE IF OnDenylist \/ ~ DataAvailable THEN 2
    ELSE IF ~ Gate3Passes THEN 3
    ELSE IF ~ Gate4Passes THEN 4
    ELSE IF ~ Gate5Passes THEN 5
    ELSE IF ~ Gate6Passes THEN 6
    ELSE 0

FailStatuses == {"FAIL", "SKIP", "BLOCK", "WAIT"}

StopsAtFirstFailingGate ==
    (Evaluated /\ FirstFailingGate # 0) =>
        /\ ~ decision.should_alert
        /\ decision.should_log
        /\ \A i \in 1..Len(Checks) : GateOf(Checks[i].rule) <= FirstFailingGate
        /\ \A i, j \in 1..Len(Checks) :
              i < j => GateOf(Checks[i].rule) < GateOf(Checks[j].rule)
        /\ GateOf(LastCheck.rule) = FirstFailingGate
        /\ LastCheck.status \in FailStatuses

NoSignalOnEarlyFailure ==
    (decision = Pending /\ decision' # Pending /\ (FirstFailingGate \in 1..5)')
        => signals' = signals

\* C7: gates are evaluated in the order 1..6 and the first failing gate ends
\* the evaluation: should_alert is false, should_log is true, no entry of a
\* later gate is appended, and a failure at gates 1-5 leaves the signal
\* window as it was before the call.
C7_FirstFailureEndsEvaluation ==
    [] StopsAtFirstFailingGate /\ [][NoSignalOnEarlyFailure]_vars

\* an ignition failure (gate 5) on a pair that has a signal in the window
C7_Witness ==
    /\ Evaluated
    /\ FirstFailingGate = 5
    /\ call.pair \in DOMAIN signals
    /\ signals[call.pair] # <<>>
    /\ LastCheck = Check("LP ignition", "FAIL", "Baseline, Added")

\* the last gate the evaluation reached
GateReached ==
    IF LastCheck.rule = "FINAL" THEN 6 ELSE GateOf(LastCheck.rule)

\* C8: every evaluated gate appends an entry whether it passes or fails, so
\* a decision that reached gate k holds, in gate order, one entry for each
\* of the gates 1..k.
C8_OneEntryPerEvaluatedGate ==
    Evaluated =>
        LET gates == [i \in 1..Len(Checks) |-> GateOf(Checks[i].rule)]
            upto == SelectSeq(gates, LAMBDA g : g <= 6)
        IN  upto = [k \in 1..GateReached |-> k]

Gates1To5Pass ==
    /\ Gate1Passes
    /\ DataAvailable
    /\ ~ OnDenylist
    /\ Gate3Passes
    /\ Gate4Passes
    /\ Gate5Passes

\* the signals held for the pair of the call
Window == IF call.pair \in DOMAIN signals THEN signals[call.pair] ELSE <<>>

BypassLeavesWindow ==
    (decision = Pending /\ decision' # Pending
        /\ (Gates1To5Pass /\ (Gate6Bypassed \/ Gate6Disabled))')
    => /\ decision'.should_alert
       /\ signals' = signals
       /\ \E i \in 1..Len(Checks') :
             /\ Checks'[i].rule = "Multi-signal"
             /\ Checks'[i].status \in {"BYPASS", "DISABLED"}

\* C11: when gates 1-5 pass and the pool is new, or its baseline is at most
\* near_zero_baseline with age at most one hour, or multi-signal is disabled,
\* gate 6 is bypassed: the call returns should_alert = true whatever the
\* window holds, registers no signal and leaves the window unchanged.
C11_BypassLeavesWindow == [][BypassLeavesWindow]_vars

\* an alert through the baseline/age bypass, multi-signal required, while
\* the window of the pair already holds a signal
C11_Witness ==
    /\ Evaluated
    /\ Gates1To5Pass
    /\ ~ call.is_new_pool
    /\ call.require_multi_signal
    /\ Gate6Bypassed
    /\ Len(Window) = 1
    /\ decision.should_alert

\* the entry rule 3 appends when the age passes
AgeEntry ==
    CHOOSE c \in {Checks[i] : i \in 1..Len(Checks)} : c.rule = "Pair age"

\* the call got past gates 1 and 2 and its age passes the hard-reject check
AgePasses ==
    /\ Gate1Passes
    /\ DataAvailable
    /\ ~ OnDenylist
    /\ Gate3Passes

\* C18: for every pair age that passes the hard-reject check the priority is
\* High when age <= 0.5h, Medium when 0.5h < age <= 2h and Low otherwise
\* (sweet spot up to preferred_age, late window beyond it); a decision
\* rejected at or before the age gate carries no priority.
C18_PriorityByAge ==
    Evaluated =>
        IF AgePasses
        THEN /\ decision.details.priority =
                    (IF InAge <= 30 THEN "HIGH"
                     ELSE IF InAge <= 120 THEN "MEDIUM" ELSE "LOW")
             /\ AgeEntry.status =
                    (IF InAge <= 30 THEN "HIGH (golden window)"
                     ELSE IF InAge <= 120 THEN "MEDIUM (early discovery)"
                     ELSE IF InAge <= 60 * call.thresholds.preferred_pair_age_hours
                     THEN "LOW (sweet spot)"
                     ELSE "VALID (late window)")
        ELSE decision.details.priority = "none"

\* a pair exactly two hours old is still Medium
C18_Witness ==
    /\ Evaluated
    /\ AgePasses
    /\ InAge = 120
    /\ decision.details.priority = "MEDIUM"

(***************************************************************************)
(* Tracker properties (checked under SpecTracker)                          *)
(***************************************************************************)
\* add_signal has returned
Added == decision # Pending /\ call # None

NewSignal == call.signal
\* the list stored for the signal's pair when add_signal was entered
StoredBefore == call.stored
\* the list stored for it now
StoredAfter == signals[NewSignal.pair]
\* age, at the time of the call, of a signal stored before it
AgeOf(sg) == now - sg.timestamp

max_reconnect_delay == 60
max_cache_size == 1000
\* list(self.processed_signatures)[:100]
EVICT_BATCH == 100
\* error_code == -32003
RATE_LIMIT_CODE == -32003
\* Config.lp_add_min_sol, Config.lp_add_min_usd, Config.require_multi_signal
lp_add_min_sol == 500
lp_add_min_usd == 10000
require_multi_signal == TRUE
\* get_transaction(signature, retries=3)
RETRIES == 3

\* a signature no earlier notification carried
FreshSignature == "fresh"

CacheLen(cache) == Cardinality(cache.named) + cache.others

CacheHasNothing(cache, signature) == FALSE

\* signature in self.processed_signatures
CacheHas(cache, signature) == signature \in cache.named

\* self.processed_signatures.add(signature)
CacheAdd(cache, signature) ==
    IF signature = FreshSignature
    THEN [cache EXCEPT !.others = @ + 1]
    ELSE [cache EXCEPT !.named = @ \cup {signature}]

\* list(set)[:100] followed by discard: a set has no order of its own, so
\* any 100 of the entries may be the ones removed
CacheEvictions(cache) ==
    {[named |-> cache.named \ gone,
      others |-> cache.others - (EVICT_BATCH - Cardinality(gone))] :
        gone \in {g \in SUBSET cache.named :
                    /\ Cardinality(g) <= EVICT_BATCH
                    /\ EVICT_BATCH - Cardinality(g) <= cache.others}}

CacheOverflowsAtCapacity(cache) == CacheLen(cache) >= max_cache_size

\* len(self.processed_signatures) > self.max_cache_size
CacheOverflows(cache) == CacheLen(cache) > max_cache_size

\* lines 200-205: the caches the insertion of a signature may leave
CacheInsert(cache, signature) ==
    LET added == CacheAdd(cache, signature)
    IN  IF CacheOverflows(added) THEN CacheEvictions(added) ELSE {added}

\* extract_signature_from_notification: only params.result is searched
ExtractSignature(m) ==
    IF m.nested THEN "" ELSE m.signature

LP_INDICATORS == {"initialize", "deposit", "add liquidity", "create pool", "liquidity"}
REMOVAL_WORDS == {"withdraw", "remove", "swap"}

\* is_liquidity_addition(logs); logs is the set of phrases the log lines hold
IsLiquidityAddition(logs) ==
    /\ logs # {}
    /\ logs \cap LP_INDICATORS # {}
    /\ logs \cap REMOVAL_WORDS = {}

\* get_transaction: the attempts made and whether a body came back
RECURSIVE FetchFrom(_, _)
FetchFrom(replies, attempt) ==
    IF attempt > RETRIES THEN [found |-> FALSE, attempts |-> RETRIES]
    ELSE IF replies[attempt] = "result" THEN [found |-> TRUE, attempts |-> attempt]
    ELSE FetchFrom(replies, attempt + 1)

GetTransaction(replies) == FetchFrom(replies, 1)

\* n entries "fetch"
FetchSteps(n) == [i \in 1..n |-> "fetch"]

\* the arguments process_parsed_lp_event passes to the filter
FilterCall(ev) ==
    [pair |-> ev.pair_string,
     lp_added_sol |-> ev.sol_amount,
     lp_before_sol |-> IF ev.liquidity_sol - ev.sol_amount > 0
                       THEN ev.liquidity_sol - ev.sol_amount ELSE 0,
     thresholds |-> DefaultThresholds,
     legacy_memes |-> LEGACY_MEMES,
     is_new_pool |-> ev.is_new_pool,
     require_multi_signal |-> require_multi_signal,
     dex |-> ev.dex]

BelowThresholdsEither(ev) ==
    ev.sol_amount < lp_add_min_sol /\ ev.sol_amount_usd < lp_add_min_usd

\* lp_events.py 59-70
BelowThresholds(ev) ==
    ev.sol_amount < lp_add_min_sol \/ ev.sol_amount_usd < lp_add_min_usd

NotifyAlways(should_alert) == TRUE

\* on_alert and should_alert
NotifyWanted(should_alert) == should_alert

\* process_parsed_lp_event with on_alert = handle_alert
ProcessParsedLpEvent(m, sigs, clock) ==
    LET ev == m.parsed
        out == CheckEarlyStageOpportunity(FilterCall(ev), sigs, clock)
    IN  IF BelowThresholds(ev)
        THEN [steps |-> <<>>, signals |-> sigs, alert |-> "none"]
        ELSE [steps |-> <<"filter">>
                        \o (IF m.db_ok THEN <<"record">> ELSE <<"record", "raise">>)
                        \o (IF m.db_ok /\ NotifyWanted(out.should_alert)
                            THEN <<"notify">> ELSE <<>>),
              signals |-> out.signals,
              alert |-> IF out.should_alert THEN "true" ELSE "false"]

\* what handling a message leaves behind
Handled(m, cache, sigs, delay, steps, alert) ==
    [msg |-> m, cache |-> cache, signals |-> sigs, delay |-> delay,
     steps |-> steps, alert |-> alert]

\* process_message from the keyword pre-filter on (lines 212-279)
AfterInsert(m, cache, sigs, clock, delay, steps) ==
    IF ~ IsLiquidityAddition(m.logs) \/ ~ m.has_parser
    THEN Handled(m, cache, sigs, delay, steps, "none")
    ELSE LET fetched == GetTransaction(m.replies)
             steps2 == steps \o FetchSteps(fetched.attempts)
         IN  IF ~ fetched.found
             THEN Handled(m, cache, sigs, delay, steps2, "none")
             ELSE IF m.parsed = None
             THEN Handled(m, cache, sigs, delay, steps2 \o <<"parse">>, "none")
             ELSE LET done == ProcessParsedLpEvent(m, sigs, clock)
                  IN  Handled(m, cache, done.signals, delay,
                              steps2 \o <<"parse">> \o done.steps, done.alert)

DelayAfterAnyError(m, delay) == 60

\* lines 153-159: only the rate-limit code touches the delay
DelayAfterError(m, delay) ==
    IF m.code = RATE_LIMIT_CODE THEN 60 ELSE delay

\* process_message: every way the handling of message m can end
ProcessMessage(m, cache, sigs, clock, delay) ==
    IF m.kind = "invalid_json"
    THEN {Handled(m, cache, sigs, delay, <<"raise">>, "none")}
    ELSE IF m.kind = "error"
    THEN {Handled(m, cache, sigs, DelayAfterError(m, delay), <<>>, "none")}
    ELSE IF m.kind \in {"confirmation", "other"}
    THEN {Handled(m, cache, sigs, delay, <<>>, "none")}
    ELSE IF m.err \/ m.logs = {}
    THEN {Handled(m, cache, sigs, delay, <<>>, "none")}
    ELSE LET signature == ExtractSignature(m)
         IN  IF signature = ""
             THEN {Handled(m, cache, sigs, delay, <<>>, "none")}
             ELSE IF CacheHas(cache, signature)
             THEN {Handled(m, cache, sigs, delay, <<>>, "none")}
             ELSE {AfterInsert(m, after, sigs, clock, delay,
                               IF CacheOverflows(CacheAdd(cache, signature))
                               THEN <<"insert", "evict">> ELSE <<"insert">>) :
                       after \in CacheInsert(cache, signature)}

(***************************************************************************)
(* Listener inputs                                                         *)
(***************************************************************************)
Signatures == {"sigA", "sigB"}

\* a notification whose record sits in params.result itself, not failed,
\* with a deposit log, fetched at the first attempt and not an LP event
Notification(signature) ==
    [kind |-> "notification", code |-> 0, nested |-> FALSE, err |-> FALSE,
     logs |-> {"deposit"}, signature |-> signature, has_parser |-> TRUE,
     replies |-> <<"result", "result", "result">>, parsed |-> None,
     db_ok |-> TRUE]

Frame(kind, code) ==
    [Notification("") EXCEPT !.kind = kind, !.code = code]

\* the event parse_lp_event returns
ParsedEvent(sol, usd, liquidity, new_pool, dex) ==
    [pair_string |-> "TOKEN/SOL", sol_amount |-> sol, sol_amount_usd |-> usd,
     liquidity_sol |-> liquidity, is_new_pool |-> new_pool, dex |-> dex]

ParsedEvents ==
    {ParsedEvent(lp_add_min_sol - 1, lp_add_min_usd, 499, TRUE, PairData(60, SmallCap)),
     ParsedEvent(lp_add_min_sol, lp_add_min_usd - 1, 500, TRUE, PairData(60, SmallCap)),
     ParsedEvent(lp_add_min_sol, lp_add_min_usd, 500, TRUE, PairData(60, SmallCap)),
     ParsedEvent(lp_add_min_sol, lp_add_min_usd, 520, FALSE, PairData(61, SmallCap)),
     ParsedEvent(lp_add_min_sol, lp_add_min_usd, 521, FALSE, PairData(61, SmallCap))}

FetchReplies ==
    {<<"null", "null", "null">>, <<"error", "raise", "null">>,
     <<"raise", "result", "result">>, <<"null", "error", "result">>}

Messages ==
    {Frame("invalid_json", 0), Frame("confirmation", 0), Frame("other", 0)}
    \cup {Frame("error", c) : c \in {RATE_LIMIT_CODE, -32000, 0}}
    \cup {[Notification("sigA") EXCEPT !.err = TRUE],
          [Notification("sigA") EXCEPT !.logs = {}],
          [Notification("sigA") EXCEPT !.nested = TRUE],
          [Notification("sigA") EXCEPT !.has_parser = FALSE],
          Notification("")}
    \cup {[Notification(sg) EXCEPT !.logs = l] :
            sg \in Signatures \cup {FreshSignature},
            l \in {{"deposit"}, {"deposit", "swap"}, {"transfer"}}}
    \cup {[Notification(FreshSignature) EXCEPT !.replies = r] : r \in FetchReplies}
    \cup {[Notification(sg) EXCEPT !.parsed = ev, !.db_ok = ok] :
            sg \in {"sigA", FreshSignature}, ev \in ParsedEvents, ok \in BOOLEAN}

(***************************************************************************)
(* Listener actions                                                        *)
(***************************************************************************)
MaxSleeps == 8
MaxCached == 3

Min2(a, b) == IF a < b THEN a ELSE b

\* connect_and_listen is entered
Start ==
    /\ pc = "idle"
    /\ running' = TRUE
    /\ pc' = "connecting"
    /\ UNCHANGED <<ws, reconnect_delay, processed_signatures, stop_requested,
                   rate_limited, sleeps, handled>>
    /\ UNCHANGED <<tx, fact, ixType, now, signals, call, decision>>
    /\ UNCHANGED pvars

\* websockets.connect raises
ConnectFail ==
    /\ pc = "connecting"
    /\ pc' = "closed"
    /\ UNCHANGED <<running, ws, reconnect_delay, processed_signatures,
                   stop_requested, rate_limited, sleeps, handled>>
    /\ UNCHANGED <<tx, fact, ixType, now, signals, call, decision>>
    /\ UNCHANGED pvars

\* websockets.connect succeeds (lines 303-304)
ConnectOk ==
    /\ pc = "connecting"
    /\ ws' = "open"
    /\ reconnect_delay' = 1
    /\ rate_limited' = FALSE
    /\ sleeps' = <<>>
    /\ pc' = "subscribing"
    /\ UNCHANGED <<running, processed_signatures, stop_requested, handled>>
    /\ UNCHANGED <<tx, fact, ixType, now, signals, call, decision>>
    /\ UNCHANGED pvars

\* the subscriptions are sent, or ws.send raises
Subscribe ==
    /\ pc = "subscribing"
    /\ \/ pc' = "listening" /\ ws' = ws
       \/ pc' = "closed" /\ ws' = "closed"
    /\ UNCHANGED <<running, reconnect_delay, processed_signatures,
                   stop_requested, rate_limited, sleeps, handled>>
    /\ UNCHANGED <<tx, fact, ixType, now, signals, call, decision>>
    /\ UNCHANGED pvars

\* the effect of `await self.process_message(message)` ending as `out`
Process(m, out) ==
    /\ processed_signatures' = out.cache
    /\ signals' = out.signals
    /\ reconnect_delay' = out.delay
    /\ rate_limited' = (rate_limited
                          \/ (m.kind = "error" /\ m.code = RATE_LIMIT_CODE))
    /\ handled' = [msg |-> m, steps |-> out.steps, alert |-> out.alert]
    /\ UNCHANGED <<running, pc, ws, stop_requested, sleeps>>
    /\ UNCHANGED <<tx, fact, ixType, now, call, decision>>
    /\ UNCHANGED pvars

\* async for message in ws: process_message(message)
Receive ==
    /\ pc = "listening"
    /\ ws \in {"open", "closing"}
    /\ \E m \in Messages :
       \E out \in ProcessMessage(m, processed_signatures, signals, now,
                                 reconnect_delay) :
          /\ CacheLen(out.cache) <= MaxCached
          /\ TotalStored(out.signals) <= MaxSignals
          /\ Process(m, out)

\* the iteration over the socket ends: ConnectionClosed or a normal close
SocketClosed ==
    /\ pc = "listening"
    /\ pc' = "closed"
    /\ ws' = "closed"
    /\ UNCHANGED <<running, reconnect_delay, processed_signatures,
                   stop_requested, rate_limited, sleeps, handled>>
    /\ UNCHANGED <<tx, fact, ixType, now, signals, call, decision>>
    /\ UNCHANGED pvars

\* if self.running: asyncio.sleep(self.reconnect_delay) begins
BeginSleep ==
    /\ pc = "closed"
    /\ running
    /\ pc' = "sleeping"
    /\ sleeps' = IF Len(sleeps) < MaxSleeps
                 THEN Append(sleeps, reconnect_delay) ELSE sleeps
    /\ UNCHANGED <<running, ws, reconnect_delay, processed_signatures,
                   stop_requested, rate_limited, handled>>
    /\ UNCHANGED <<tx, fact, ixType, now, signals, call, decision>>
    /\ UNCHANGED pvars

NextDelayUncapped(delay) == delay * 2

\* min(self.reconnect_delay * 2, self.max_reconnect_delay)
NextDelay(delay) == Min2(delay * 2, max_reconnect_delay)

\* the sleep ends, the delay is doubled, and `while self.running` is tested
WakeUp ==
    /\ pc = "sleeping"
    /\ reconnect_delay' = NextDelay(reconnect_delay)
    /\ pc' = IF running THEN "connecting" ELSE "stopped"
    /\ UNCHANGED <<running, ws, processed_signatures, stop_requested,
                   rate_limited, sleeps, handled>>
    /\ UNCHANGED <<tx, fact, ixType, now, signals, call, decision>>
    /\ UNCHANGED pvars

LoopExitOnClose ==
    /\ pc = "closed"
    /\ pc' = "stopped"
    /\ UNCHANGED <<running, ws, reconnect_delay, processed_signatures,
                   stop_requested, rate_limited, sleeps, handled>>
    /\ UNCHANGED <<tx, fact, ixType, now, signals, call, decision>>
    /\ UNCHANGED pvars

\* self.running is false after the connection ended: no sleep, the loop exits
LoopExit ==
    /\ pc = "closed"
    /\ ~ running
    /\ pc' = "stopped"
    /\ UNCHANGED <<running, ws, reconnect_delay, processed_signatures,
                   stop_requested, rate_limited, sleeps, handled>>
    /\ UNCHANGED <<tx, fact, ixType, now, signals, call, decision>>
    /\ UNCHANGED pvars

\* stop(), from the signal handler
Stop ==
    /\ pc \notin {"idle", "stopped"}
    /\ ~ stop_requested
    /\ running' = FALSE
    /\ stop_requested' = TRUE
    /\ ws' = IF ws = "open" THEN "closing" ELSE ws
    /\ UNCHANGED <<pc, reconnect_delay, processed_signatures, rate_limited,
                   sleeps, handled>>
    /\ UNCHANGED <<tx, fact, ixType, now, signals, call, decision>>
    /\ UNCHANGED pvars

InitListener == InitIdle

NextListener ==
    \/ Start
    \/ ConnectFail
    \/ ConnectOk
    \/ Subscribe
    \/ Receive
    \/ SocketClosed
    \/ BeginSleep
    \/ WakeUp
    \/ LoopExit
    \/ Stop

SpecListener == InitListener /\ [][NextListener]_vars

\* the loop's own steps are taken once they are possible: a connection
\* attempt ends (the handshake succeeds, fails or times out), the
\* subscriptions are sent or the send raises, asyncio.sleep returns
ListenerFairness ==
    /\ WF_vars(ConnectOk \/ ConnectFail)
    /\ WF_vars(Subscribe)
    /\ WF_vars(BeginSleep)
    /\ WF_vars(WakeUp)
    /\ WF_vars(LoopExit)

SpecListenerFair == InitListener /\ [][NextListener]_vars /\ ListenerFairness

(***************************************************************************)
(* Cache specification: a connected listener receives notifications whose  *)
(* handling ends at the keyword pre-filter or at an exhausted fetch, until *)
(* the cache overflows                                                     *)
(***************************************************************************)
CacheMessages ==
    {[Notification(sg) EXCEPT !.logs = {"transfer"}] :
        sg \in Signatures \cup {FreshSignature}}
    \cup {[Notification("sigB") EXCEPT !.replies = <<"null", "null", "null">>]}

\* the listener is connected and subscribed
InitCache ==
    /\ tx = NoTx
    /\ fact = Pending
    /\ ixType = "none"
    /\ now = 0
    /\ signals = EmptySignals
    /\ call = None
    /\ decision = Pending
    /\ running = TRUE
    /\ pc = "listening"
    /\ ws = "open"
    /\ reconnect_delay = 1
    /\ processed_signatures = EmptyCache
    /\ stop_requested = FALSE
    /\ rate_limited = FALSE
    /\ sleeps = <<>>
    /\ handled = None
    /\ PipelineIdle

Deliver ==
    /\ pc = "listening"
    /\ ws \in {"open", "closing"}
    /\ \E m \in CacheMessages :
       \E out \in ProcessMessage(m, processed_signatures, signals, now,
                                 reconnect_delay) :
          Process(m, out)

NextCache == Deliver

SpecCache == InitCache /\ [][NextCache]_vars

(***************************************************************************)
(* Listener properties (checked under SpecListener)                        *)
(***************************************************************************)
\* 1, 2, 4, 8, 16, 32, 60, 60, ...
RECURSIVE ExpectedSleep(_)
ExpectedSleep(i) ==
    IF i = 1 THEN 1
    ELSE LET twice == 2 * ExpectedSleep(i - 1)
         IN  IF twice > 60 THEN 60 ELSE twice

DelayInRange == reconnect_delay \in 1..60

DelayAfterConnect ==
    (pc = "connecting" /\ pc' = "subscribing") => reconnect_delay' = 1

SleepsDouble ==
    \A i \in 1..Len(sleeps) : sleeps[i] = ExpectedSleep(i)

SleepsDoubleUnlessLimited ==
    \A i \in 1..Len(sleeps) :
        sleeps[i] = IF rate_limited THEN 60 ELSE ExpectedSleep(i)

\* C12 as stated: the delay starts at 1s, is doubled after each backoff sleep
\* and capped at 60s, so the sleeps since the start or since the last
\* successful connect are 1, 2, 4, 8, 16, 32, 60, 60, ...; the delay is in
\* [1, 60] in every state; the delay is 1s after every successful connect and
\* the first sleep after it lasts 1s.
C12_BackoffSequence ==
    [] (DelayInRange /\ SleepsDouble) /\ [][DelayAfterConnect]_vars

\* C12 amended: the same, except that after a rate-limit frame received on
\* the connection the sleeps that follow it last 60s.
C12_BackoffSequenceUnlessLimited ==
    [] (DelayInRange /\ SleepsDoubleUnlessLimited) /\ [][DelayAfterConnect]_vars

\* after a connection that succeeded, eight failed attempts in a row
C12_Witness ==
    /\ ws = "closed"
    /\ ~ rate_limited
    /\ Len(sleeps) >= 8
    /\ sleeps[7] = 60
    /\ sleeps[6] = 32

\* the step handles a message: the listener stays in the iteration over the
\* socket and no stop is requested in the step
Received ==
    /\ pc = "listening"
    /\ pc' = "listening"
    /\ stop_requested' = stop_requested

IsErrorFrame(m) == m.kind = "error"
IsRateLimit(m) == m.kind = "error" /\ m.code = RATE_LIMIT_CODE

\* an error frame changes nothing but the delay, and that only for -32003
ErrorFrameIgnored ==
    (Received /\ IsErrorFrame(handled'.msg))
    => /\ processed_signatures' = processed_signatures
       /\ signals' = signals
       /\ handled'.steps = <<>>
       /\ reconnect_delay' = IF IsRateLimit(handled'.msg)
                             THEN 60 ELSE reconnect_delay

\* once a rate-limit frame came, the delay stays 60 until the next connect
\* succeeds
LimitedKeepsMaximum == rate_limited => reconnect_delay = 60

\* every sleep lasts the delay held when it begins
SleepLastsDelay ==
    (pc = "closed" /\ pc' = "sleeping" /\ Len(sleeps') > Len(sleeps))
    => sleeps'[Len(sleeps')] = reconnect_delay

\* C13: after a rate-limit frame (code -32003) the next backoff sleep of the
\* reconnect loop lasts 60s whatever the delay was before; any other RPC
\* error frame leaves the delay unchanged; either frame is otherwise ignored
\* (no dedup insertion, no fetch).
C13_RateLimitForcesMaximum ==
    /\ [] LimitedKeepsMaximum
    /\ [][ErrorFrameIgnored /\ SleepLastsDelay]_vars

\* the sleep that follows a rate-limit frame received while the delay was 1
C13_Witness ==
    /\ pc = "sleeping"
    /\ rate_limited
    /\ sleeps = <<60>>
    /\ IsRateLimit(handled.msg)

\* the notification gets as far as the dedup lookup: it is not failed, it
\* has log lines and a signature is extracted from it
ReachesDedup(m) ==
    /\ m.kind = "notification"
    /\ ~ m.err
    /\ m.logs # {}
    /\ ExtractSignature(m) # ""

Has(steps, step) == \E i \in 1..Len(steps) : steps[i] = step

DuplicateSkipped ==
    (Received /\ ReachesDedup(handled'.msg)
        /\ ExtractSignature(handled'.msg) \in processed_signatures.named)
    => /\ handled'.steps = <<>>
       /\ handled'.alert = "none"
       /\ processed_signatures' = processed_signatures
       /\ signals' = signals

NewSignatureInserted ==
    (Received /\ ReachesDedup(handled'.msg)
        /\ ExtractSignature(handled'.msg) \notin processed_signatures.named)
    => /\ handled'.steps # <<>>
       /\ handled'.steps[1] = "insert"
       /\ \A i \in 2..Len(handled'.steps) : handled'.steps[i] # "insert"
       /\ \/ CacheLen(processed_signatures') = CacheLen(processed_signatures) + 1
          \/ Has(handled'.steps, "evict")

\* C14: a notification whose signature is in the cache when it arrives is
\* skipped (no fetch, no decode, no filter evaluation, no emit, cache
\* unchanged); a signature that is not in the cache is inserted before
\* anything else is done with the notification.
C14_DuplicateSkipped == [][DuplicateSkipped /\ NewSignatureInserted]_vars

\* a re-delivered notification of an LP event that was recorded the first
\* time
C14_Witness ==
    /\ handled # None
    /\ ReachesDedup(handled.msg)
    /\ handled.msg.parsed # None
    /\ ~ BelowThresholds(handled.msg.parsed)
    /\ handled.msg.signature \in processed_signatures.named
    /\ handled.steps = <<>>

CacheBounded == CacheLen(processed_signatures) <= 1000

EvictsAtOverflowOnly ==
    Received =>
        IF Has(handled'.steps, "insert")
        THEN IF CacheLen(processed_signatures) + 1 = 1001
             THEN /\ CacheLen(processed_signatures') = 901
                  /\ handled'.steps[2] = "evict"
             ELSE /\ CacheLen(processed_signatures')
                       = CacheLen(processed_signatures) + 1
                  /\ ~ Has(handled'.steps, "evict")
        ELSE /\ processed_signatures' = processed_signatures
             /\ ~ Has(handled'.steps, "evict")

\* C15: after every message the cache holds at most 1000 signatures; an
\* insertion that brings it to 1001 evicts exactly 100 in the same handling
\* step, leaving 901, before anything else is done; nothing is evicted while
\* the size is at most 1000.
C15_CacheBounded == [] CacheBounded /\ [][EvictsAtOverflowOnly]_vars

\* the cache right after the eviction
C15_Witness ==
    /\ handled # None
    /\ handled.steps = <<"insert", "evict">>
    /\ CacheLen(processed_signatures) = 901

Count(steps, step) == Cardinality({i \in 1..Len(steps) : steps[i] = step})

\* the handling of the last message got a parsed event: the decoder yielded
\* a fact and the enrichment completed
EventParsed ==
    /\ handled # None
    /\ Has(handled.steps, "parse")
    /\ handled.msg.parsed # None

ReachesMinimums(ev) ==
    ev.sol_amount >= 500 /\ ev.sol_amount_usd >= 10000

FilteredAndRecordedOnce ==
    /\ Count(handled.steps, "filter") = 1
    /\ Count(handled.steps, "record") = 1
    /\ handled.alert \in {"true", "false"}

StoppedOnlyOnRequest == pc = "stopped" => stop_requested

\* whatever the message and however its handling ends, the listener is back
\* at the iteration over the socket
HandlingKeepsListening ==
    (pc = "listening" /\ handled' # handled) => pc' = "listening"

Transient == pc \in {"closed", "sleeping"} /\ ~ stop_requested

Reconnecting == pc = "connecting" \/ stop_requested

\* C17: while no stop has been requested, no connection failure, socket
\* close, RPC error frame, malformed message, fetch exhaustion or exception
\* in a handler ends the loop: handling a message leaves the listener
\* waiting for the next one, a lost or failed connection is eventually
\* followed by a new connection attempt after the backoff sleep, and the
\* loop is in its terminal state only after a stop request.
C17_OnlyStopEndsLoop ==
    /\ [] StoppedOnlyOnRequest
    /\ [][HandlingKeepsListening]_vars
    /\ Transient ~> Reconnecting

\* a new connection attempt, after the backoff sleep, following a connection
\* on which the last message raised in its handler
C17_Witness ==
    /\ pc = "connecting"
    /\ ~ stop_requested
    /\ ws = "closed"
    /\ Len(sleeps) = 1
    /\ handled # None
    /\ Has(handled.steps, "raise")

(***************************************************************************)
(* Telegram notifier (journaltx/notify/telegram.py)                        *)
(* An Alert field that may be NULL is None or a number; ages are counted   *)
(* in minutes and liquidity in whole SOL, as for the filter.               *)
(***************************************************************************)
\* an Optional[float] column that holds no value (every real value is >= 0)
Null == -1

\* Python truth of an optional number: None and 0 are false
Truthy(x) == x # Null /\ x # 0

\* pair_age = alert.pair_age_hours if alert.pair_age_hours else 99
DEFAULT_ALERT_AGE_HOURS == 99
\* multiplier = 999 when lp_before is 0
INFINITE_MULTIPLIER == 999

\* lp_added / lp_before as an exact fraction
Multiplier(lp_added, lp_before) ==
    IF lp_before > 0
    THEN [num |-> lp_added, den |-> lp_before]
    ELSE [num |-> INFINITE_MULTIPLIER, den |-> 1]

FracGE(f, k) == f.num >= k * f.den
FracLE(f, k) == f.num <= k * f.den

\* TelegramNotifier._calculate_ignition_quality
CalculateIgnitionQuality(alert) ==
    LET lp_before == IF Truthy(alert.lp_sol_before) THEN alert.lp_sol_before ELSE 0
        lp_added == alert.value_sol
        pair_age == IF Truthy(alert.pair_age_hours) THEN alert.pair_age_hours
                    ELSE HoursToMinutes(DEFAULT_ALERT_AGE_HOURS)
        multiplier == Multiplier(lp_added, lp_before)
    IN  IF /\ lp_before <= 10
           /\ (FracGE(multiplier, 15) \/ lp_added >= 150)
           /\ pair_age <= HoursToMinutes(6)
        THEN "real commitment"
        ELSE IF \/ (10 <= lp_before /\ lp_before <= 30)
                \/ (FracGE(multiplier, 5) /\ FracLE(multiplier, 15))
                \/ (HoursToMinutes(6) <= pair_age /\ pair_age <= HoursToMinutes(12))
        THEN "borderline"
        ELSE "rotation/maintenance"

\* TelegramNotifier.send_alert: why nothing was sent, or how the post ended
SendAlertResult(alert, configured, cap_over, post_ok) ==
    IF ~ configured THEN "not configured"
    ELSE IF alert.early_stage_passed # TRUE THEN "not passed"
    ELSE IF CalculateIgnitionQuality(alert) = "rotation/maintenance" THEN "rotation"
    ELSE IF cap_over THEN "market cap"
    ELSE IF post_ok THEN "sent" ELSE "failed"

QualityBefore == {Null, 0, 1, 10, 11, 30, 31, 51}
QualityAdded == {14, 15, 149, 150, 154, 155, 465, 466}
QualityAges == {Null, 0, 1, 360, 361, 720, 721}

Alerts ==
    [lp_sol_before : QualityBefore, value_sol : QualityAdded,
     pair_age_hours : QualityAges, early_stage_passed : BOOLEAN]

\* handle_alert passes an alert to send_alert
InitNotify ==
    /\ tx = NoTx
    /\ fact = Pending
    /\ ixType = "none"
    /\ now = 0
    /\ signals = EmptySignals
    /\ call \in Alerts
    /\ decision = Pending
    /\ ListenerIdle

SendAlert ==
    /\ decision = Pending
    /\ \E configured, cap_over, post_ok \in BOOLEAN :
          decision' = [quality |-> CalculateIgnitionQuality(call),
                       configured |-> configured,
                       result |-> SendAlertResult(call, configured, cap_over, post_ok)]
    /\ UNCHANGED <<tx, fact, ixType, now, signals, call>>
    /\ UNCHANGED lvars

NextNotify == SendAlert

SpecNotify == InitNotify /\ [][NextNotify]_vars

(***************************************************************************)
(* Notifier properties (checked under SpecNotify)                          *)
(***************************************************************************)
\* the band the contract gives; lp_added / 0 counts as unbounded
ContractQuality(lp_before, lp_added, age) ==
    IF /\ lp_before <= 10
       /\ (lp_before = 0 \/ lp_added >= 15 * lp_before \/ lp_added >= 150)
       /\ age <= 360
    THEN "real commitment"
    ELSE IF \/ (10 <= lp_before /\ lp_before <= 30)
            \/ (lp_before > 0 /\ 5 * lp_before <= lp_added /\ lp_added <= 15 * lp_before)
            \/ (360 <= age /\ age <= 720)
    THEN "borderline"
    ELSE "rotation/maintenance"

\* C19: for all lp_before >= 0, lp_added > 0 and age >= 0 the classifier
\* returns 'real commitment' exactly when lp_before <= 10 and (lp_added /
\* lp_before >= 15 or lp_added >= 150) and age <= 6h, otherwise 'borderline'
\* when lp_before is in 10..30 or the multiplier is in 5..15 or age is in
\* 6..12h, otherwise 'rotation/maintenance'; an alert that passed the filter
\* is suppressed by the classifier only in the rotation/maintenance band.
C19_IgnitionQuality ==
    (decision # Pending /\ call.lp_sol_before # Null /\ call.pair_age_hours # Null)
    => /\ decision.quality
            = ContractQuality(call.lp_sol_before, call.value_sol, call.pair_age_hours)
       /\ (decision.configured /\ call.early_stage_passed)
            => (decision.result = "rotation"
                    <=> decision.quality = "rotation/maintenance")

(***************************************************************************)
(* Pool address of a decoded fact (checked under SpecDecode)               *)
(***************************************************************************)
\* the located instruction's offset-based extraction, and the balance scan
OffsetPool ==
    ExtractPoolFromInstruction(LocatedIx, tx.accountKeys, LocatedType)
OffsetYieldsNoPool == OffsetPool = None \/ OffsetPool.pool_address = ""
ScanPool == ExtractPoolFromInnerInstructions(tx.postTokenBalances)

\* C20: whenever the offset-based extraction yields no pool address (empty
\* account list, or the pool offset out of range for the instruction's
\* account list) decode falls back to the token-balance scan and returns no
\* fact if the scan yields no pool either; hence every fact returned by
\* decode has a non-empty pool_address.
C20_FallbackGivesPool ==
    IsFact =>
        /\ fact.pool_address # ""
        /\ OffsetYieldsNoPool
              => (ScanPool # None /\ fact.pool_address = ScanPool.pool_address)

(***************************************************************************)
(* Token amount and back-filled mint (checked under SpecDecode)            *)
(***************************************************************************)
\* the pool record the balance deltas are computed with
UsedPool == IF OffsetPool = None THEN ScanPool ELSE OffsetPool
MintUnresolved == UsedPool # None /\ UsedPool.token_mint = ""

\* ui-amount increase of the i-th post token-balance record
TokenIncrease(i) ==
    tx.postTokenBalances[i].uiAmount
        - PreAmount(tx.preTokenBalances, tx.postTokenBalances[i].accountIndex)
NonQuoteRecords ==
    {i \in 1..Len(tx.postTokenBalances) : tx.postTokenBalances[i].mint # WSOL_MINT}
Gainers == {i \in NonQuoteRecords : TokenIncrease(i) > 0}
TopGainers == {i \in Gainers : \A j \in Gainers : TokenIncrease(j) <= TokenIncrease(i)}

\* C21: when pool extraction did not resolve token_mint, token_amount is the
\* largest positive ui-amount increase over the token-balance records whose
\* mint is not the quote asset, and the token_mint of the fact is the mint of
\* a record that attains that largest increase, in every order of the records.
C21_MintOfLargestIncrease ==
    (IsFact /\ MintUnresolved /\ Gainers # {}) =>
        /\ \A i \in TopGainers : fact.token_amount = TokenIncrease(i)
        /\ \E i \in TopGainers : fact.token_mint = tx.postTokenBalances[i].mint

(***************************************************************************)
(* Window used by gate 6 (checked under Spec)                              *)
(***************************************************************************)
\* stored signals of the evaluated pair before the call, by age at the call
StoredAtCall == StoredFor(signals, call'.pair)
YoungerThan(w) ==
    Cardinality({i \in 1..Len(StoredAtCall) : now - StoredAtCall[i].timestamp < w})
NotOlderThan(w) ==
    Cardinality({i \in 1..Len(StoredAtCall) : now - StoredAtCall[i].timestamp <= w})

\* an evaluation that reached gate 6 in multi-signal mode counts, besides
\* the new signal, every stored signal younger than the supplied window and
\* none older than it
CountsWithinSuppliedWindow ==
    (decision = Pending /\ decision' # Pending
        /\ decision'.details.signal_counts # NoCounts)
    => LET w == call'.thresholds.signal_window_minutes
           total == decision'.details.signal_counts.total
       IN  /\ YoungerThan(w) + 1 <= total
           /\ total <= NotOlderThan(w) + 1

\* C22: the trailing duration gate 6 prunes and counts with is the
\* signal_window_minutes supplied with the thresholds of the evaluate call:
\* for any configured w, a stored signal older than w minutes is never
\* counted and a signal younger than w minutes always is.
C22_WindowFromThresholds == [][CountsWithinSuppliedWindow]_vars

(***************************************************************************)
(* Signature of a notification (checked under SpecListener)                *)
(***************************************************************************)
\* the record of the notification (params.result or params.result.value) is
\* not failed, has log lines and carries a signature
CarriesSignature(m) ==
    /\ m.kind = "notification"
    /\ ~ m.err
    /\ m.logs # {}
    /\ m.signature # ""

SignatureReadFromRecord ==
    (Received /\ CarriesSignature(handled'.msg)
        /\ handled'.msg.signature \notin processed_signatures.named)
    => /\ handled'.steps # <<>>
       /\ handled'.steps[1] = "insert"

\* C25: for every log notification that carries a signature, a failure flag
\* and log lines in one record, whether the record is params.result itself or
\* nested at params.result.value, the signature is taken from that record: a
\* non-failed notification with log lines is dropped at the signature step
\* only when the record carries no signature.
C25_SignatureFromRecord == [][SignatureReadFromRecord]_vars

(***************************************************************************)
(* Multi-signal mode without bypass (checked under Spec)                   *)
(***************************************************************************)
\* the call requires multi-signal confirmation and does not qualify for the
\* bypass: existing pool, and baseline above near-zero or age above one hour
NoBypassCase ==
    /\ call.require_multi_signal
    /\ ~ call.is_new_pool
    /\ \/ call.lp_before_sol > call.thresholds.near_zero_baseline_sol
       \/ call.dex.kind # "data"
       \/ call.dex.pair_age > 60

OnlyLpAddStored ==
    \A p \in DOMAIN signals :
        \A i \in 1..Len(signals[p]) : signals[p][i].signal_type = "lp_add"

NeverAlertsWithoutBypass ==
    (Evaluated /\ NoBypassCase) => ~ decision.should_alert

\* such a call that passes gates 1-5 ends with WAIT, its window being a
\* suffix of the former window followed by one lp_add signal stamped now
WaitsAfterAppending ==
    (decision = Pending /\ decision' # Pending /\ (NoBypassCase /\ Gates1To5Pass)')
    => LET before == StoredFor(signals, call'.pair)
           after == StoredFor(signals', call'.pair)
       IN  /\ LastCheck'.rule = "Multi-signal"
           /\ LastCheck'.status = "WAIT"
           /\ after # <<>>
           /\ after[Len(after)].signal_type = "lp_add"
           /\ after[Len(after)].timestamp = now
           /\ \E k \in 0..Len(before) :
                 SubSeq(after, 1, Len(after) - 1) = SubSeq(before, k + 1, Len(before))

InvokesSubscribed ==
    \/ \E i \in 1..Len(tx.instructions) :
          tx.instructions[i].programId = RAYDIUM_AMM_PROGRAM
    \/ \E i \in 1..Len(InnerFlat) : InnerFlat[i].programId = RAYDIUM_AMM_PROGRAM

\* C30: the program address named in the log subscription is the address the
\* decoder searches for in a transaction's instructions, so every notified
\* transaction that invokes the subscribed program contains an instruction
\* the decoder can locate.
C30_SubscribedProgramLocated ==
    (Decoded /\ InvokesSubscribed) =>
        /\ RAYDIUM_AMM_PROGRAM = RAYDIUM_AMM_V4
        /\ HasLocated
        /\ ~ tx.failed => ixType # "none"

(***************************************************************************)
(* The signature just inserted (checked under SpecCache)                   *)
(***************************************************************************)
InsertedStaysCached ==
    (Received /\ Has(handled'.steps, "insert")
        /\ handled'.msg.signature \in Signatures)
    => handled'.msg.signature \in processed_signatures'.named

\* C28: the signature inserted while handling a notification is still in the
\* dedup cache when that handling ends (the batch eviction triggered by the
\* insertion never removes it), so the same signature delivered again in the
\* very next notification is skipped and not fetched or processed again.
C28_InsertedStaysCached == [][InsertedStaysCached]_vars

(***************************************************************************)
(* Failed handlings and the dedup mark (checked under SpecCache)           *)
(***************************************************************************)
\* the handling inserted the signature and then failed: the fetch was
\* exhausted, the decoder gave no event, or a collaborator raised
FailedAfterInsert(h) ==
    /\ Has(h.steps, "insert")
    /\ \/ (~ Has(h.steps, "parse") /\ Count(h.steps, "fetch") = 3)
       \/ (Has(h.steps, "parse") /\ h.msg.parsed = None)
       \/ Has(h.steps, "raise")

MarkedBeforeFetch ==
    (Received /\ Has(handled'.steps, "insert"))
    => /\ handled'.steps[1] = "insert"
       /\ \A i \in 1..Len(handled'.steps) :
             handled'.steps[i] \in {"fetch", "parse", "filter"} => i > 1

MarkSurvivesFailure ==
    (Received /\ FailedAfterInsert(handled') /\ handled'.msg.signature \in Signatures)
    => handled'.msg.signature \in processed_signatures'.named

\* C29: a signature is marked processed before the keyword pre-filter and
\* before the fetch, and nothing removes it on failure: after an exhausted
\* fetch, a decode without a fact or a raised exception the signature is in
\* the cache, so a later re-delivery of it is skipped and the event is not
\* attempted again while the signature remains cached.
C29_MarkSurvivesFailure ==
    [][MarkedBeforeFetch /\ MarkSurvivesFailure /\ DuplicateSkipped]_vars

(***************************************************************************)
(* Message handling step by step                                           *)
(* The iteration over the socket in connect_and_listen, process_message    *)
(* and get_transaction, taken one blocking call at a time: the frames the  *)
(* socket has queued, the handlings that have not returned, and each       *)
(* request and each pause of the fetch.                                    *)
(***************************************************************************)
MaxArrivals == 3
MaxInbox == 2

\* frames of the pipeline specification: a rate-limit frame, a notification
\* without LP keywords, notifications fetched at once (with and without an
\* event), and one notification for each way the fetch can go
PipelineMessages ==
    {Frame("error", RATE_LIMIT_CODE),
     [Notification("sigA") EXCEPT !.logs = {"transfer"}],
     Notification("sigA"),
     [Notification("sigB") EXCEPT
         !.parsed = ParsedEvent(lp_add_min_sol, lp_add_min_usd, 500, TRUE,
                                PairData(60, SmallCap))]}
    \cup {[Notification("sigB") EXCEPT !.replies = r] : r \in FetchReplies}

\* process_message gets as far as get_transaction (lines 167-226)
Fetches(m, cache) ==
    /\ m.kind = "notification"
    /\ ~ m.err
    /\ m.logs # {}
    /\ ExtractSignature(m) # ""
    /\ ~ CacheHas(cache, ExtractSignature(m))
    /\ IsLiquidityAddition(m.logs)
    /\ m.has_parser

\* a call of process_message that has reached get_transaction
Job(n, m) ==
    [n |-> n, msg |-> m, at |-> "request", attempt |-> 1, calls |-> <<>>]

\* the socket queues a frame
Arrive ==
    /\ pc = "listening"
    /\ ws \in {"open", "closing"}
    /\ arrived < MaxArrivals
    /\ Len(inbox) < MaxInbox
    /\ \E m \in PipelineMessages :
          inbox' = Append(inbox, [n |-> arrived + 1, msg |-> m])
    /\ arrived' = arrived + 1
    /\ UNCHANGED <<jobs, begun, fetchlog>>
    /\ UNCHANGED <<running, pc, ws, reconnect_delay, processed_signatures,
                   stop_requested, rate_limited, sleeps, handled>>
    /\ UNCHANGED <<tx, fact, ixType, now, signals, call, decision>>

LoopBlockedNever == FALSE

\* `await self.process_message(message)`: the loop asks the socket for the
\* next frame only after the call has returned
LoopBlocked == jobs # {}

\* `async for message in ws` yields the oldest queued frame and
\* process_message runs up to its return or up to the fetch
Take ==
    /\ pc = "listening"
    /\ ~ LoopBlocked
    /\ inbox # <<>>
    /\ LET item == Head(inbox)
           m == item.msg
       IN  /\ inbox' = Tail(inbox)
           /\ begun' = Append(begun, item.n)
           /\ IF Fetches(m, processed_signatures)
              THEN /\ processed_signatures'
                         \in CacheInsert(processed_signatures, ExtractSignature(m))
                   /\ jobs' = jobs \cup {Job(item.n, m)}
                   /\ UNCHANGED <<signals, reconnect_delay, rate_limited, handled>>
              ELSE /\ \E out \in ProcessMessage(m, processed_signatures, signals,
                                                 now, reconnect_delay) :
                         /\ processed_signatures' = out.cache
                         /\ signals' = out.signals
                         /\ reconnect_delay' = out.delay
                         /\ handled' = [msg |-> m, steps |-> out.steps,
                                        alert |-> out.alert]
                   /\ rate_limited' = (rate_limited
                                         \/ (m.kind = "error" /\ m.code = RATE_LIMIT_CODE))
                   /\ UNCHANGED jobs
    /\ UNCHANGED <<arrived, fetchlog>>
    /\ UNCHANGED <<running, pc, ws, stop_requested, sleeps>>
    /\ UNCHANGED <<tx, fact, ixType, now, call, decision>>

\* what get_transaction returned, with the requests and pauses it made
FetchLog(j, calls, found) ==
    [n |-> j.n, replies |-> j.msg.replies, calls |-> calls, found |-> found]

RetryLeftThroughLast(attempt) == attempt <= RETRIES

\* attempt < retries - 1 (attempt counted from 1 here)
RetryLeft(attempt) == attempt < RETRIES

\* one session.post of get_transaction and the branch taken on its outcome
Request(j) ==
    /\ j.at = "request"
    /\ LET reply == j.msg.replies[j.attempt]
           calls == Append(j.calls, "request")
       IN  IF reply = "result"
           THEN /\ jobs' = (jobs \ {j}) \cup {[j EXCEPT !.at = "decode", !.calls = calls]}
                /\ fetchlog' = FetchLog(j, calls, TRUE)
           ELSE IF RetryLeft(j.attempt)
           THEN /\ jobs' = (jobs \ {j}) \cup {[j EXCEPT !.at = "wait", !.calls = calls]}
                /\ UNCHANGED fetchlog
           ELSE /\ jobs' = (jobs \ {j}) \cup {[j EXCEPT !.at = "failed", !.calls = calls]}
                /\ fetchlog' = FetchLog(j, calls, FALSE)
    /\ UNCHANGED <<inbox, arrived, begun>>
    /\ UNCHANGED <<running, pc, ws, reconnect_delay, processed_signatures,
                   stop_requested, rate_limited, sleeps, handled>>
    /\ UNCHANGED <<tx, fact, ixType, now, signals, call, decision>>

\* time.sleep(0.5); continue
Wait(j) ==
    /\ j.at = "wait"
    /\ LET calls == Append(j.calls, "wait")
       IN  IF j.attempt + 1 <= RETRIES
           THEN /\ jobs' = (jobs \ {j})
                             \cup {[j EXCEPT !.at = "request", !.attempt = @ + 1,
                                             !.calls = calls]}
                /\ UNCHANGED fetchlog
           ELSE /\ jobs' = (jobs \ {j}) \cup {[j EXCEPT !.at = "failed", !.calls = calls]}
                /\ fetchlog' = FetchLog(j, calls, FALSE)
    /\ UNCHANGED <<inbox, arrived, begun>>
    /\ UNCHANGED <<running, pc, ws, reconnect_delay, processed_signatures,
                   stop_requested, rate_limited, sleeps, handled>>
    /\ UNCHANGED <<tx, fact, ixType, now, signals, call, decision>>

\* the number of requests among the calls
Requests(calls) == Cardinality({i \in 1..Len(calls) : calls[i] = "request"})

\* process_message after get_transaction has returned (lines 228-284)
Finish(j) ==
    /\ j.at \in {"decode", "failed"}
    /\ jobs' = jobs \ {j}
    /\ LET fetched == <<"insert">> \o FetchSteps(Requests(j.calls))
       IN  IF j.at = "failed"
           THEN /\ handled' = [msg |-> j.msg, steps |-> fetched, alert |-> "none"]
                /\ UNCHANGED signals
           ELSE IF j.msg.parsed = None
           THEN /\ handled' = [msg |-> j.msg, steps |-> fetched \o <<"parse">>,
                               alert |-> "none"]
                /\ UNCHANGED signals
           ELSE LET done == ProcessParsedLpEvent(j.msg, signals, now)
                IN  /\ handled' = [msg |-> j.msg,
                                   steps |-> fetched \o <<"parse">> \o done.steps,
                                   alert |-> done.alert]
                    /\ signals' = done.signals
    /\ UNCHANGED <<inbox, arrived, begun, fetchlog>>
    /\ UNCHANGED <<running, pc, ws, reconnect_delay, processed_signatures,
                   stop_requested, rate_limited, sleeps>>
    /\ UNCHANGED <<tx, fact, ixType, now, call, decision>>

\* the iteration over the socket ends; frames not yet taken are lost with it
ConnectionLost ==
    /\ pc = "listening"
    /\ ~ LoopBlocked
    /\ pc' = "closed"
    /\ ws' = "closed"
    /\ inbox' = <<>>
    /\ UNCHANGED <<jobs, arrived, begun, fetchlog>>
    /\ UNCHANGED <<running, reconnect_delay, processed_signatures,
                   stop_requested, rate_limited, sleeps, handled>>
    /\ UNCHANGED <<tx, fact, ixType, now, signals, call, decision>>

Fetching == \E j \in jobs : Request(j) \/ Wait(j)
Returning == \E j \in jobs : Finish(j)

InitPipeline == InitIdle

NextPipeline ==
    \/ Start
    \/ ConnectFail
    \/ ConnectOk
    \/ Subscribe
    \/ Arrive
    \/ Take
    \/ Fetching
    \/ Returning
    \/ ConnectionLost
    \/ BeginSleep
    \/ WakeUp
    \/ LoopExit
    \/ Stop

SpecPipeline == InitPipeline /\ [][NextPipeline]_vars

\* the loop's own steps as for the listener; besides, every blocking call of
\* a handling returns (session.post has a timeout, time.sleep is finite,
\* the decode and the filter are straight-line code), and the close that
\* stop() schedules on an open socket ends the iteration over it
CloseCompletes == ws = "closing" /\ ConnectionLost

PipelineFairness ==
    /\ ListenerFairness
    /\ WF_vars(Fetching)
    /\ WF_vars(Returning)
    /\ WF_vars(CloseCompletes)

SpecPipelineFair == InitPipeline /\ [][NextPipeline]_vars /\ PipelineFairness

(***************************************************************************)
(* Pipeline properties (checked under SpecPipeline)                        *)
(***************************************************************************)
OneHandlingAtATime == Cardinality(jobs) <= 1

\* a handling begins only when no other is in progress, and it is the
\* handling of the oldest frame the socket still holds
BeginsInArrivalOrder ==
    begun' # begun =>
        /\ jobs = {}
        /\ inbox # <<>>
        /\ begun' = Append(begun, Head(inbox).n)
        /\ \A i \in 1..Len(begun) : begun[i] < Head(inbox).n
        /\ \A i \in 2..Len(inbox) : Head(inbox).n < inbox[i].n

\* the cache and the signal window change only in the step that begins a
\* handling or in a step of the one handling in progress
SharedStateUsedByOne ==
    (processed_signatures' # processed_signatures \/ signals' # signals) =>
        \/ (begun' # begun /\ jobs = {})
        \/ (begun' = begun /\ Cardinality(jobs) = 1)

\* C23: within one pipeline instance notifications are handled strictly in
\* the order the transport delivers them and at most one notification is
\* being handled at any time: the handling of message n+1 starts only after
\* the handling of message n has ended, so the dedup cache and the signal
\* window are never used by two handlings concurrently.
C23_OneAtATimeInOrder ==
    /\ [] OneHandlingAtATime
    /\ [][BeginsInArrivalOrder /\ SharedStateUsedByOne]_vars

\* the second frame waits in the socket while the fetch of the first one
\* pauses between two attempts
C23_Witness ==
    /\ begun = <<1>>
    /\ \E j \in jobs : j.n = 1 /\ j.at = "wait"
    /\ inbox # <<>>
    /\ Head(inbox).n = 2

\* requests and pauses alternate, beginning with a request
Alternates(calls) ==
    \A i \in 1..Len(calls) :
        calls[i] = IF i % 2 = 1 THEN "request" ELSE "wait"

FetchInProgressBounded ==
    \A j \in jobs : Alternates(j.calls) /\ Requests(j.calls) <= 3

\* what a finished fetch did and returned
FetchReturned ==
    fetchlog # None =>
        LET k == Requests(fetchlog.calls)
        IN  /\ Alternates(fetchlog.calls)
            /\ k \in 1..3
            /\ fetchlog.calls[Len(fetchlog.calls)] = "request"
            /\ \A i \in 1..(k - 1) : fetchlog.replies[i] # "result"
            /\ fetchlog.found <=> fetchlog.replies[k] = "result"
            /\ ~ fetchlog.found => k = 3

\* after an exhausted fetch process_message returns without an exception
\* and the loop goes on
ExhaustionNotRaised ==
    (jobs # {} /\ jobs' = {} /\ fetchlog # None /\ ~ fetchlog.found)
    => /\ handled'.steps = <<"insert", "fetch", "fetch", "fetch">>
       /\ pc' = pc

FetchStarted == \E j \in jobs : j.at \in {"request", "wait"}
FetchOver == \A j \in jobs : j.at \in {"decode", "failed"}

\* C24: get_transaction always terminates after at most 3 request attempts
\* for one signature: it returns the body at the first attempt that yields a
\* result, pauses only between attempts (never after the last), and returns
\* absence after the third unsuccessful attempt, whether the failures were
\* RPC errors, results not yet available or raised exceptions; exhaustion
\* never raises to the caller.
C24_FetchBounded ==
    /\ [] FetchInProgressBounded
    /\ [] FetchReturned
    /\ [][ExhaustionNotRaised]_vars
    /\ FetchStarted ~> FetchOver

\* a fetch that met an RPC error, an exception and a missing result
C24_Witness ==
    /\ fetchlog # None
    /\ ~ fetchlog.found
    /\ fetchlog.replies = <<"error", "raise", "null">>
    /\ fetchlog.calls = <<"request", "wait", "request", "wait", "request">>
    /\ jobs = {}
    /\ handled.steps = <<"insert", "fetch", "fetch", "fetch">>

\* a step that posts one more fetch request
RequestPosted ==
    \E j \in jobs : \E k \in jobs' :
        k.n = j.n /\ Requests(k.calls) = Requests(j.calls) + 1

\* once stop has been requested no connection attempt and no fetch attempt
\* is started
NothingStartedAfterStop ==
    stop_requested =>
        /\ ~ RequestPosted
        /\ pc' = "connecting" => pc = "connecting"

SocketClosedAtStop == pc = "stopped" => ws # "open"

\* C26: after a stop request issued in any state (connecting, listening,
\* handling a message in the middle of a fetch retry loop, sleeping in
\* backoff) the pipeline starts no new connection attempt and no further
\* fetch attempt, closes the transport connection and eventually reaches
\* the terminal state.
C26_StopEndsEverything ==
    /\ [][NothingStartedAfterStop]_vars
    /\ [] SocketClosedAtStop
    /\ stop_requested ~> (pc = "stopped")

====
